---- MODULE Spec2Model ----
(***************************************************************************)
(* Model of the rate-limited, cached data-acquisition pipeline of          *)
(* src/backend/main.py: the sliding-window rate limiter (check_rate_limit),*)
(* the TTL caches, the batched token-info fetch (batch_get_token_info),    *)
(* the historical-series normalisation and the handlers' provider calls.   *)
(*                                                                         *)
(* The handlers are coroutines of one asyncio event loop: code between two *)
(* awaits runs atomically, so each action below is the code from one       *)
(* suspension point to the next.                                           *)
(***************************************************************************)
EXTENDS Integers, Sequences, FiniteSets, TLC

\* ------------------------------------------------------------------------
\* Program constants (src/backend/main.py:53-54)
RATE_LIMIT_CALLS == 30
RATE_LIMIT_WINDOW == 60

\* TOKEN_INFO_CACHE = TTLCache(maxsize=1000, ttl=3600) (main.py:48)
TOKEN_INFO_MAXSIZE == 1000
TOKEN_INFO_TTL == 3600

\* main.py:93
BATCH_SIZE == 100

\* HISTORICAL_CACHE = TTLCache(maxsize=1000, ttl=3600) (main.py:49)
HISTORICAL_MAXSIZE == 1000
HISTORICAL_TTL == 3600

\* days: int = 7 (main.py:924)
DefaultDays == 7
HistDays == 30

\* CATEGORY_CACHE = TTLCache(maxsize=100, ttl=300) (main.py:50)
CATEGORY_MAXSIZE == 100
CATEGORY_TTL == 300

\* Bounds of the rate-limiter model
NumCallers == 2
TickStep == 30
MaxTime == 90

\* Bound of the handlers' loops (tokens, categories, batches per request)
MaxItems == 1

\* Bounds of the cache model: the capacity and the time-to-live of the
\* instance that is exercised, and the values stored
CacheMaxSize == 2
CacheTtl == 2
CacheKeys == 1..(CacheMaxSize + 1)
CacheValues == {"a", "b"}
MaxCacheTime == CacheTtl

\* Bound of the batch-fetch model: the fetches made one after the other
MaxFetches == 2
\* ... and those of them that may ask for more ids than a batch holds
MaxLongFetches == 1

\* Bounds of the normalization model: the quotes of a provider response
\* (plain ones, and ones of any kind), and the timestamps they carry
MaxQuotes == 3
MaxCollected == 2
MaxTimestamp == 3

\* Bounds of the top-tokens model: the categories the provider lists, the
\* coins of a category, and the requests made one after the other
MaxCategories == 2
MaxCoins == 2
MaxTopRequests == 2
MaxCatRequests == 2
MaxHistRequests == 2
MaxHistTicks == 2

Callers == 1..NumCallers

VARIABLES
    clock,       \* time.time(), in seconds
    last_calls,  \* the global call history (main.py:55)
    cpc,         \* per caller: "idle" | "sleeping" (inside asyncio.sleep)
    wake,        \* per caller: the time its asyncio.sleep ends
    grantLog,    \* history: the grant times younger than the window
    waited,      \* history: per caller, the sleeps of its latest acquire
    waiting,     \* history: per sleeping caller, the oldest call and the
                 \*   time at its latest sleep, and whether a permit was
                 \*   granted since
    rhandler,    \* per request: the handler that serves it ("none": not begun)
    rprog,       \* per request: its permit acquisitions and provider calls
    rpos,        \* per request: the next step of rprog
    permitsGranted,  \* history: per request, the permits it was granted
    callsStarted,    \* history: per request, the provider calls it started
    gcache,      \* a TTLCache instance: its entries, least recently used first
    lastPut,     \* history: per key, the latest put (none once evicted)
    recency,     \* history: the keys put and not evicted, by latest access
    lastGet,     \* history: the latest get and the put it should reflect
    lastEvict,   \* history: what the latest put removed for capacity
    token_cache, \* TOKEN_INFO_CACHE (main.py:48)
    bpc,         \* batch_get_token_info: "idle" | "permit" | "call" |
                 \*   "returned" | "raised"
    b_ids,       \* its argument token_ids
    b_result,    \* its dict result
    b_batches,   \* its list batches
    b_i,         \* the batch its loop is at
    b_n,         \* history: the fetches begun
    b_cached0,   \* history: the requested ids that were cached at the call
    b_log,       \* history: per batch attempted, what was sent and returned
    b_permits,   \* history: the permits the fetch has been granted
    b_served0,   \* history: str(id) -> the value cached at the call, for
                 \*   the requested ids that were cached
    b_stored,    \* history: str(id) -> the value and the time of the latest
                 \*   assignment TOKEN_INFO_CACHE[id] = value, and those of
                 \*   the latest pair the provider returned for the id
                 \*   (`answered`, <<>> when it returned none)
    b_fresh0,    \* history: str(id) -> the value of b_stored, for the
                 \*   requested ids assigned less than the ttl before the
                 \*   call, and the pair the provider returned if it did so
                 \*   less than the ttl before the call
    raw_quotes,  \* data["data"]["quotes"] of a historical-quotes response
    npc,         \* "input", or the handler that processed it: "tokens" |
                 \*   "doge" | "memes" | "compare"
    all_tokens_history,  \* the body get_tokens_historical_data returns
    doge_response,       \* the response of get_doge_history
    memes_response,      \* the "data" get_memes_historical returns
    compare_response,    \* the series compare_categories returns for a
                         \*   category
    category_cache,  \* CATEGORY_CACHE (main.py:50)
    tpc,             \* get_top_tokens_by_category: "idle" | "permit1" |
                     \*   "call1" | "permit2" | "call2" | "done"
    category_name,   \* its argument category_name
    limit,           \* its argument limit
    target_category, \* its variable target_category: <<>> for None
    top_response,    \* its response: the status and the body
    t_n,             \* history: the requests begun
    t_categories,    \* history: the provider's category list it was just
                     \*   sent
    t_coins,         \* history: the coins of the category it was sent
    t_trace,         \* history: the permits and the provider calls of the
                     \*   request, in order
    t_resolved,      \* history: lower-cased name -> the time of the latest
                     \*   CATEGORY_CACHE[name.lower()] = cat, the name as
                     \*   it was asked for, cat, and the rank in time
                     \*   (`used`) of the latest assignment or successful
                     \*   CATEGORY_CACHE.get of the name
    t_fresh0,        \* history: whether the name asked for was resolved
                     \*   less than the ttl before the request, whether to a
                     \*   category with an id, and how many other names
                     \*   were assigned or got since its latest use
    historical_cache,  \* HISTORICAL_CACHE (main.py:49)
    mpc,             \* get_tokens_historical_data: "idle" | "info" |
                     \*   "permit" | "call" | "done"
    m_ids,           \* its argument token_ids
    token_info,      \* its variable token_info
    m_i,             \* the position in token_ids its loop is at
    m_history,       \* its variable all_tokens_history
    m_response,      \* its response: the status and the body
    m_log,           \* history: per position of token_ids passed, what was
                     \*   found for it
    m_days,          \* its argument days
    m_stored,        \* history: per key of HISTORICAL_CACHE, the token id
                     \*   and the days its latest entry was stored for
    m_cached0,       \* history: when the request began every token of
                     \*   token_ids had a live entry in HISTORICAL_CACHE
    db_categories, \* the collection db.categories, in insertion order
    cat_pc,      \* get_categories, per request: "idle" | "permit" | "call"
                 \*   | "delete" | "insert" | "done" | "failed"
    cat_data,    \* its data["data"], per request
    cat_done,    \* history: the lists of the requests that have succeeded
    cat_n,       \* history: the get_categories requests begun
    db_historical, \* the collection db.historical_data, in insertion order
    hpc,         \* get_category_historical: "idle" | "find" | "permit" | "call" |
                 \*   "delete" | "insert" | "done", per caller
    h_category,  \* its argument category_id
    h_data,      \* its list historical_data
    h_response,  \* its response
    h_n,         \* history: the requests begun
    h_permits,   \* history: the permits the request has been granted
    h_calls,     \* history: the provider calls the request has made
    h_start,     \* the time the request began
    h_days,      \* the request's parameter days
    h_bound,     \* the lower timestamp bound of the request's delete_many
    utc_offset,  \* local time minus UTC in the server's timezone, in seconds
    h_prev,      \* history: h_last when the request began
    h_found,     \* history: the category was in db.categories when the
                 \*   request began
    h_last       \* history: <<>>, or the time and the series of the latest
                 \*   insert_many into db.historical_data

rlVars == <<clock, last_calls, cpc, wake, grantLog, waited, waiting>>
reqVars == <<rhandler, rprog, rpos, permitsGranted, callsStarted>>
cacheVars == <<gcache, lastPut, recency, lastEvict, lastGet>>
batchVars == <<token_cache, bpc, b_ids, b_result, b_batches, b_i, b_n,
               b_cached0, b_log, b_permits, b_served0, b_stored, b_fresh0>>
normVars == <<raw_quotes, npc, all_tokens_history, doge_response,
              memes_response, compare_response>>
topVars == <<category_cache, tpc, category_name, limit, target_category,
             top_response, t_n, t_categories, t_coins, t_trace, t_resolved,
             t_fresh0>>
catVars == <<db_categories, cat_pc, cat_data, cat_done, cat_n>>
histVars == <<db_historical, hpc, h_category, h_data, h_response, h_n,
              h_permits, h_calls, h_start, h_days, h_bound, utc_offset,
              h_prev, h_found, h_last>>
multiVars == <<historical_cache, mpc, m_ids, token_info, m_i, m_history,
               m_response, m_log, m_days, m_stored, m_cached0>>

\* ------------------------------------------------------------------------
\* check_rate_limit (main.py:57-72)

\* Keep the calls that are not older than the window.
PruneOlderOnly(calls, now) ==
    SelectSeq(calls, LAMBDA t : now - t <= RATE_LIMIT_WINDOW)
\* main.py:62: keep the calls younger than the window
PruneCalls(calls, now) ==
    SelectSeq(calls, LAMBDA t : now - t < RATE_LIMIT_WINDOW)

\* main.py:65
WaitTime(calls, now) == RATE_LIMIT_WINDOW - (now - calls[1])

\* main.py:64-66: the window is full and the caller has to sleep
MustWaitOffByOne(calls, now) ==
    /\ Len(calls) > RATE_LIMIT_CALLS
    /\ WaitTime(calls, now) > 0
MustWait(calls, now) ==
    /\ Len(calls) >= RATE_LIMIT_CALLS
    /\ WaitTime(calls, now) > 0

\* One run of the body of check_rate_limit by caller p, from its entry (or
\* from the recursive call after the sleep) to its next sleep (main.py:59-68)
RateLimitSleep(p) ==
    LET pruned == PruneCalls(last_calls, clock) IN
    /\ MustWait(pruned, clock)
    /\ last_calls' = pruned
    /\ wake' = [wake EXCEPT ![p] = clock + WaitTime(pruned, clock)]
    /\ cpc' = [cpc EXCEPT ![p] = "sleeping"]
    /\ waiting' = [waiting EXCEPT
                     ![p] = <<[oldest |-> pruned[1], since |-> clock,
                               overtaken |-> FALSE]>>]
    /\ UNCHANGED <<clock, grantLog>>

\* The permit's call time is put at the head of the history.
RateLimitGrantAtHead(p) ==
    LET pruned == PruneCalls(last_calls, clock) IN
    /\ ~MustWait(pruned, clock)
    /\ last_calls' = <<clock>> \o pruned
    /\ cpc' = [cpc EXCEPT ![p] = "idle"]
    /\ wake' = [wake EXCEPT ![p] = 0]
    /\ grantLog' = Append(grantLog, clock)
    /\ waiting' = [q \in Callers |->
                     IF q = p \/ waiting[q] = <<>> THEN <<>>
                     ELSE <<[waiting[q][1] EXCEPT !.overtaken = TRUE]>>]
    /\ UNCHANGED clock
\* ... or to its return with the permit (main.py:59-64, 71-72)
RateLimitGrant(p) ==
    LET pruned == PruneCalls(last_calls, clock) IN
    /\ ~MustWait(pruned, clock)
    /\ last_calls' = Append(pruned, clock)
    /\ cpc' = [cpc EXCEPT ![p] = "idle"]
    /\ wake' = [wake EXCEPT ![p] = 0]
    /\ grantLog' = Append(grantLog, clock)
    /\ waiting' = [q \in Callers |->
                     IF q = p \/ waiting[q] = <<>> THEN <<>>
                     ELSE <<[waiting[q][1] EXCEPT !.overtaken = TRUE]>>]
    /\ UNCHANGED clock

\* A caller enters check_rate_limit (new attempts begin up to MaxTime).
Acquire(p) ==
    /\ cpc[p] = "idle"
    /\ clock <= MaxTime
    /\ \/ RateLimitSleep(p) /\ waited' = [waited EXCEPT ![p] = 1]
       \/ RateLimitGrant(p) /\ waited' = [waited EXCEPT ![p] = 0]

\* A sleeping caller that is resumed re-checks a history it does not prune
\* and keeps sleeping while that history is full.
RetryWithoutPrune(p) ==
    /\ cpc[p] = "sleeping"
    /\ clock >= wake[p]
    /\ IF Len(last_calls) >= RATE_LIMIT_CALLS
       THEN UNCHANGED <<last_calls, cpc, wake, clock, grantLog, waited,
                        waiting>>
       ELSE RateLimitGrant(p) /\ UNCHANGED waited
\* A sleeping caller that is resumed takes its permit without a new check.
RetrySleepOnce(p) ==
    /\ cpc[p] = "sleeping"
    /\ clock >= wake[p]
    /\ last_calls' = Append(last_calls, clock)
    /\ cpc' = [cpc EXCEPT ![p] = "idle"]
    /\ wake' = [wake EXCEPT ![p] = 0]
    /\ grantLog' = Append(grantLog, clock)
    /\ waiting' = [q \in Callers |->
                     IF q = p \/ waiting[q] = <<>> THEN <<>>
                     ELSE <<[waiting[q][1] EXCEPT !.overtaken = TRUE]>>]
    /\ UNCHANGED <<clock, waited>>
\* asyncio.sleep is over (it ends at its deadline or later): the recursive
\* call of main.py:69 runs the body again.
Retry(p) ==
    /\ cpc[p] = "sleeping"
    /\ clock >= wake[p]
    /\ \/ RateLimitSleep(p) /\ waited' = [waited EXCEPT ![p] = @ + 1]
       \/ RateLimitGrant(p) /\ UNCHANGED waited

\* main.py:57-72: await check_rate_limit() by caller p at any time, up to
\* its sleep or its return
CheckRateLimit(p) ==
    IF cpc[p] = "idle"
    THEN \/ RateLimitSleep(p) /\ waited' = [waited EXCEPT ![p] = 1]
         \/ RateLimitGrant(p) /\ waited' = [waited EXCEPT ![p] = 0]
    ELSE Retry(p)

\* The request is cancelled after its call time was put on record.
AbandonLeavingCall(p) ==
    /\ cpc[p] = "sleeping"
    /\ cpc' = [cpc EXCEPT ![p] = "idle"]
    /\ wake' = [wake EXCEPT ![p] = 0]
    /\ waited' = [waited EXCEPT ![p] = 0]
    /\ last_calls' = Append(last_calls, clock)
    /\ UNCHANGED <<clock, grantLog, waiting>>
\* main.py:68: the caller's task is cancelled while it is suspended in
\* await asyncio.sleep(wait_time); CancelledError leaves check_rate_limit
\* before last_calls.append. `waiting` keeps what the caller was waiting for.
Abandon(p) ==
    /\ cpc[p] = "sleeping"
    /\ cpc' = [cpc EXCEPT ![p] = "idle"]
    /\ wake' = [wake EXCEPT ![p] = 0]
    /\ waited' = [waited EXCEPT ![p] = 0]
    /\ UNCHANGED <<clock, last_calls, grantLog, waiting>>

\* Time passes.  Beyond MaxTime it passes only while a caller still sleeps.
Tick ==
    /\ \/ clock < MaxTime
       \/ \E p \in Callers : cpc[p] = "sleeping" /\ wake[p] > clock
    /\ clock' = clock + TickStep
    /\ grantLog' = SelectSeq(grantLog,
                             LAMBDA t : clock' - t < RATE_LIMIT_WINDOW)
    /\ UNCHANGED <<last_calls, cpc, wake, waited, waiting>>

\* ------------------------------------------------------------------------
\* The handlers, as the permit acquisitions and provider calls they make.
\* A request is served by one coroutine; it is one of the limiter's callers.

P == "permit"          \* await check_rate_limit()
C == "call"            \* await client.get(...): an error, or an answer the
                       \* handler rejects, ends the request when it comes
CS == "call_swallow"   \* await client.get(...) inside a per-item try/except
                       \* Exception: the handler goes on to the next item

RECURSIVE Repeat(_, _)
Repeat(s, n) == IF n = 0 THEN <<>> ELSE s \o Repeat(s, n - 1)

\* The sequences made of 1..n pieces, each taken from the set `pieces`
RECURSIVE Chains(_, _)
Chains(pieces, n) ==
    IF n = 0 THEN {<<>>}
    ELSE LET shorter == Chains(pieces, n - 1) IN
         shorter \cup {s \o x : s \in shorter, x \in pieces}

\* main.py:157-193
get_categories == {<<P, C>>}

\* main.py:195-284: a 404 or a fresh persisted series ends it before any call
get_category_historical == {<<>>, <<P, C>>}

\* main.py:286-308
get_category_details == {<<P, C>>}

\* main.py:325-433: per category the category call and, when it has coins,
\* the historical quotes call
compare_categories ==
    Chains({<<P, C>>, <<P, C, P, C>>}, MaxItems) \ {<<>>}

\* main.py:435-557 (and its second definition, main.py:731-846): categories,
\* category members, then one historical call per token with no permit.
\* The second permit is acquired before the arguments of the second call
\* are evaluated (main.py:468-474): a meme category without "id" ends the
\* request with that permit and no call.
get_top_meme_tokens ==
    {<<P, C, P>>} \cup
    {<<P, C, P, C>> \o Repeat(<<CS>>, n) : n \in 0..MaxItems}

\* main.py:559-662: without an API key it ends before any call
get_memes_historical == {<<>>, <<P, C>>}

\* main.py:664-729
get_doge_history == {<<P, C>>}

\* main.py:848-921: the categories call is skipped on a category-cache hit.
\* The permit of the category call is acquired before its arguments are
\* evaluated (main.py:878-886): a target category without "id" ends the
\* request with that permit and no call.
get_top_tokens_by_category == {<<P>>, <<P, C>>, <<P, C, P>>, <<P, C, P, C>>}

\* main.py:74-117: one permit and one call per batch of uncached ids
batch_get_token_info == {Repeat(<<P, C>>, b) : b \in 0..MaxItems}

\* main.py:923-1013: the batch fetch, then one permit and one call per token
\* that is neither cached nor without metadata
get_tokens_historical_data ==
    {b \o Repeat(<<P, CS>>, t) : b \in batch_get_token_info, t \in 0..MaxItems}

Handlers ==
    {"get_categories", "get_category_historical", "get_category_details",
     "compare_categories", "get_top_meme_tokens", "get_memes_historical",
     "get_doge_history", "get_top_tokens_by_category",
     "get_tokens_historical_data"}

HandlerPrograms(h) ==
    CASE h = "get_categories" -> get_categories
      [] h = "get_category_historical" -> get_category_historical
      [] h = "get_category_details" -> get_category_details
      [] h = "compare_categories" -> compare_categories
      [] h = "get_top_meme_tokens" -> get_top_meme_tokens
      [] h = "get_memes_historical" -> get_memes_historical
      [] h = "get_doge_history" -> get_doge_history
      [] h = "get_top_tokens_by_category" -> get_top_tokens_by_category
      [] h = "get_tokens_historical_data" -> get_tokens_historical_data

AtStep(r, op) ==
    /\ rhandler[r] \notin {"none", "done"}
    /\ rpos[r] <= Len(rprog[r])
    /\ rprog[r][rpos[r]] = op

\* A request arrives and its handler begins.
ReqStart(r) ==
    /\ rhandler[r] = "none"
    /\ \E h \in Handlers : \E prog \in HandlerPrograms(h) :
          /\ rhandler' = [rhandler EXCEPT ![r] = h]
          /\ rprog' = [rprog EXCEPT ![r] = prog]
    /\ rpos' = [rpos EXCEPT ![r] = 1]
    /\ UNCHANGED <<permitsGranted, callsStarted>>
    /\ UNCHANGED rlVars

\* The handler awaits check_rate_limit(): it sleeps, or it gets the permit
\* and moves on.
ReqPermit(r) ==
    /\ AtStep(r, P)
    /\ IF cpc[r] = "idle" THEN Acquire(r) ELSE Retry(r)
    /\ IF cpc'[r] = "idle"
       THEN /\ rpos' = [rpos EXCEPT ![r] = @ + 1]
            /\ permitsGranted' = [permitsGranted EXCEPT ![r] = @ + 1]
       ELSE UNCHANGED <<rpos, permitsGranted>>
    /\ UNCHANGED <<rhandler, rprog, callsStarted>>

\* The handler starts a provider call and is suspended in await client.get.
ReqCall(r) ==
    /\ AtStep(r, C) \/ AtStep(r, CS)
    /\ callsStarted' = [callsStarted EXCEPT ![r] = @ + 1]
    /\ rpos' = [rpos EXCEPT ![r] = @ + 1]
    /\ UNCHANGED <<rhandler, rprog, permitsGranted>>
    /\ UNCHANGED rlVars

\* The provider call the handler is suspended in comes back with an error
\* or with an answer the handler rejects: the request ends. A handler that
\* sleeps in check_rate_limit has no call pending.
ReqAbort(r) ==
    /\ rhandler[r] \notin {"none", "done"}
    /\ cpc[r] = "idle"
    /\ rpos[r] > 1
    /\ rpos[r] <= Len(rprog[r])
    /\ rprog[r][rpos[r] - 1] = C
    /\ rhandler' = [rhandler EXCEPT ![r] = "done"]
    /\ rprog' = [rprog EXCEPT ![r] = <<>>]
    /\ rpos' = [rpos EXCEPT ![r] = 1]
    /\ UNCHANGED <<permitsGranted, callsStarted>>
    /\ UNCHANGED rlVars

\* The handler returns its response, or raises between two awaits.
ReqReturn(r) ==
    /\ rhandler[r] \notin {"none", "done"}
    /\ rpos[r] > Len(rprog[r])
    /\ rhandler' = [rhandler EXCEPT ![r] = "done"]
    /\ rprog' = [rprog EXCEPT ![r] = <<>>]
    /\ rpos' = [rpos EXCEPT ![r] = 1]
    /\ UNCHANGED <<permitsGranted, callsStarted>>
    /\ UNCHANGED rlVars

\* ------------------------------------------------------------------------
\* TTLCache (main.py:14, instantiated at main.py:48-50): a bounded cache
\* whose entries expire ttl seconds after they were put and whose oldest
\* access is evicted first.  A cache is the sequence of its entries, the
\* least recently used first.

Absent == "absent"    \* what get returns for a miss (None)

Entry(k, v, expires) == [key |-> k, value |-> v, expires_at |-> expires]

\* An entry is live until its expires_at has passed
LiveAtDeadline(e, now) == now <= e.expires_at
Live(e, now) == now < e.expires_at

CacheKeysOf(c) == {c[i].key : i \in 1..Len(c)}

CacheDrop(c, k) == SelectSeq(c, LAMBDA e : e.key # k)

CacheEntry(c, k) == c[CHOOSE i \in 1..Len(c) : c[i].key = k]

\* key in cache: present and not expired
TTLContains(c, k, now) ==
    \E i \in 1..Len(c) : c[i].key = k /\ Live(c[i], now)

\* get(key): the value of a live entry, absent otherwise
TTLGet(c, k, now) ==
    IF TTLContains(c, k, now) THEN CacheEntry(c, k).value ELSE Absent

\* the cache after get(key): a hit makes the entry the most recently used,
\* an expired entry is evicted
TTLTouchNoReorder(c, k, now) ==
    IF TTLContains(c, k, now) THEN c ELSE CacheDrop(c, k)
TTLTouch(c, k, now) ==
    IF TTLContains(c, k, now)
    THEN Append(CacheDrop(c, k), CacheEntry(c, k))
    ELSE CacheDrop(c, k)

\* the expired entries are evicted
TTLExpire(c, now) == SelectSeq(c, LAMBDA e : Live(e, now))

\* the cache after put(key, value): expires_at = now + ttl; an insert that
\* would exceed the capacity evicts the least recently used entry first
TTLPut(c, k, v, now, maxsize, ttl) ==
    LET live == TTLExpire(c, now)
        room == IF k \in CacheKeysOf(live) THEN CacheDrop(live, k)
                ELSE IF Len(live) >= maxsize THEN Tail(live)
                ELSE live
    IN  Append(room, Entry(k, v, now + ttl))

\* --- the cache under arbitrary gets and puts -----------------------------

None == <<>>          \* a history variable that holds nothing
Some(x) == <<x>>

GhostLive(k, now) ==
    /\ lastPut[k] # None
    /\ now - lastPut[k][1].time < CacheTtl

MoveToEnd(s, k) == Append(SelectSeq(s, LAMBDA x : x # k), k)

CacheGet(k) ==
    /\ lastGet' = Some([key |-> k, result |-> TTLGet(gcache, k, clock),
                        time |-> clock, put |-> lastPut[k]])
    /\ gcache' = TTLTouch(gcache, k, clock)
    /\ recency' = IF GhostLive(k, clock) THEN MoveToEnd(recency, k)
                  ELSE recency
    /\ lastEvict' = None
    /\ UNCHANGED lastPut

CachePut(k, v) ==
    LET after == TTLPut(gcache, k, v, clock, CacheMaxSize, CacheTtl)
        liveBefore == {j \in CacheKeys : GhostLive(j, clock)}
        others == liveBefore \ {k}
        gone == others \ CacheKeysOf(after)
        order == SelectSeq(recency, LAMBDA j : j \in others)
    IN  /\ gcache' = after
        /\ lastEvict' =
             Some([full |-> k \notin liveBefore
                            /\ Cardinality(liveBefore) = CacheMaxSize,
                   gone |-> gone,
                   lru |-> IF order = <<>> THEN {} ELSE {Head(order)},
                   putTimes |-> [j \in gone |-> lastPut[j][1].time]])
        /\ lastPut' = [j \in CacheKeys |->
                         IF j = k THEN Some([value |-> v, time |-> clock])
                         ELSE IF j \in gone THEN None
                         ELSE lastPut[j]]
        /\ recency' = MoveToEnd(SelectSeq(recency, LAMBDA j : j \notin gone),
                                k)
        /\ lastGet' = None

CacheTick ==
    /\ clock < MaxCacheTime
    /\ clock' = clock + 1
    /\ lastGet' = None
    /\ lastEvict' = None
    /\ UNCHANGED <<gcache, lastPut, recency>>

\* ------------------------------------------------------------------------
\* batch_get_token_info (main.py:74-117)

\* str(token_id) and int(token_id) (ToInt): the result dict is keyed by the decimal
\* string of an id, the cache by the id
Str(i) == <<"str", i>>
ToInt(s) == s[2]

\* what the provider returns for a token; what get_top_tokens_by_category
\* caches for it (main.py:903-906)
TokenInfo == "info"
TokenBrief == "brief"

\* Every lookup counts as a miss.
NeverTruthy(v) == FALSE
\* `if cached:` (main.py:84): None is falsy, a non-empty dict is truthy
Truthy(v) == v # Absent

\* d[k] = v on a dict
DictSet(d, k, v) == (k :> v) @@ d

Min(a, b) == IF a < b THEN a ELSE b

\* main.py:94: the slices [i : i + size] of a list
RECURSIVE Chunks(_, _)
Chunks(s, size) ==
    IF s = <<>> THEN <<>>
    ELSE <<SubSeq(s, 1, Min(size, Len(s)))>>
         \o Chunks(SubSeq(s, Min(size, Len(s)) + 1, Len(s)), size)

\* main.py:81-87: one round of the loop over token_ids; `acc` holds the
\* cache, the result and the uncached ids so far
LookupOne(id, acc, now) ==
    LET cached == TTLGet(acc.cache, id, now)
        touched == TTLTouch(acc.cache, id, now)
    IN  IF Truthy(cached)
        THEN [cache |-> touched,
              result |-> DictSet(acc.result, Str(id), cached),
              uncached |-> acc.uncached]
        ELSE [cache |-> touched,
              result |-> acc.result,
              uncached |-> Append(acc.uncached, id)]

\* main.py:80-87: the loop over token_ids, in order: the rounds for the
\* first half of the list, then, from what they leave (`mid` is bound to
\* its value), the rounds for the second half
RECURSIVE LookupAll(_, _, _)
LookupAll(ids, acc, now) ==
    IF ids = <<>> THEN acc
    ELSE IF Len(ids) = 1 THEN LookupOne(ids[1], acc, now)
    ELSE LET half == Len(ids) \div 2
         IN  CHOOSE out \in
                 {LookupAll(SubSeq(ids, half + 1, Len(ids)), mid, now) :
                     mid \in {LookupAll(SubSeq(ids, 1, half), acc, now)}} :
                 TRUE

\* The pair goes into the result and not into the cache.
StoreResultOnly(key, acc, now) ==
    [cache |-> acc.cache,
     result |-> DictSet(acc.result, key, TokenInfo)]
\* main.py:109-110: one pair of the response goes into the cache and into
\* the result
StoreOne(key, acc, now) ==
    [cache |-> TTLPut(acc.cache, ToInt(key), TokenInfo, now,
                      TOKEN_INFO_MAXSIZE, TOKEN_INFO_TTL),
     result |-> DictSet(acc.result, key, TokenInfo)]

\* main.py:108-110: the loop over data.items(), in order, split like the
\* loop above; `keys` are the keys of data, in its order
RECURSIVE StoreAll(_, _, _)
StoreAll(keys, acc, now) ==
    IF keys = <<>> THEN acc
    ELSE IF Len(keys) = 1 THEN StoreOne(keys[1], acc, now)
    ELSE LET half == Len(keys) \div 2
         IN  CHOOSE out \in
                 {StoreAll(SubSeq(keys, half + 1, Len(keys)), mid, now) :
                     mid \in {StoreAll(SubSeq(keys, 1, half), acc, now)}} :
                 TRUE

\* The distinct elements of a list, in the order of their first occurrence
Distinct(s) ==
    LET firsts == SelectSeq([i \in 1..Len(s) |-> i],
                            LAMBDA i : \A j \in 1..(i - 1) : s[j] # s[i])
    IN  [k \in 1..Len(firsts) |-> s[firsts[k]]]

\* The provider's answers to GET /v2/cryptocurrency/info for a batch:
\*   "ok"           200, data holds every id asked for
\*   "partial"      200, data lacks the first id asked for
\*   "http_error"   a transport error or a non-2xx status (httpx.HTTPError,
\*                  from client.get or raise_for_status)
\*   "undecodable"  200 with a body that is not JSON (ValueError from
\*                  response.json())
\*   "malformed"    200 with "data": null (AttributeError from data.items())
Outcomes == {"ok", "partial", "http_error", "undecodable", "malformed"}

\* the keys of response.json()["data"]
ResponseKeys(batch, outcome) ==
    LET asked == Distinct(batch) IN
    CASE outcome = "ok" -> [i \in 1..Len(asked) |-> Str(asked[i])]
      [] outcome = "partial" ->
            [i \in 1..(Len(asked) - 1) |-> Str(asked[i + 1])]
      [] OTHER -> <<>>

Range(a, b) == [i \in 1..(b - a + 1) |-> a + i - 1]

\* The id lists asked for: none, one id, three ids, a repeated id, and one
\* id more than a batch holds
IdLists ==
    {<<>>, <<1>>, <<1, 2, 3>>, <<2, 3, 2>>, Range(1, BATCH_SIZE + 1)}

\* main.py:76-94: from the call to the first await (or to the return)
BatchStart(ids) ==
    /\ bpc \in {"idle", "returned", "raised"}
    /\ b_n < MaxFetches
    /\ b_n' = b_n + 1
    /\ b_ids' = ids
    /\ b_cached0' = {ids[i] : i \in {j \in 1..Len(ids) :
                                        TTLContains(token_cache, ids[j], clock)}}
    /\ b_served0' =
           [k \in {Str(ids[j]) : j \in {j \in 1..Len(ids) :
                                   TTLContains(token_cache, ids[j], clock)}}
              |-> CacheEntry(token_cache, ToInt(k)).value]
    /\ b_fresh0' =
           [k \in {k \in {Str(ids[j]) : j \in 1..Len(ids)} :
                     /\ k \in DOMAIN b_stored
                     /\ clock - b_stored[k].time < TOKEN_INFO_TTL}
              |-> [value |-> b_stored[k].value,
                   answered |->
                       SelectSeq(b_stored[k].answered,
                           LAMBDA a : clock - a.time < TOKEN_INFO_TTL)]]
    /\ UNCHANGED b_stored
    /\ b_log' = <<>>
    /\ b_permits' = 0
    /\ b_i' = 1
    /\ IF ids = <<>>
       THEN /\ b_result' = <<>>
            /\ b_batches' = <<>>
            /\ bpc' = "returned"
            /\ UNCHANGED token_cache
       ELSE LET looked == LookupAll(ids, [cache |-> token_cache,
                                          result |-> <<>>,
                                          uncached |-> <<>>], clock)
            IN  /\ token_cache' = looked.cache
                /\ b_result' = looked.result
                /\ b_batches' = Chunks(looked.uncached, BATCH_SIZE)
                /\ bpc' = IF looked.uncached = <<>> THEN "returned"
                          ELSE "permit"
    /\ UNCHANGED rlVars

\* main.py:97: await check_rate_limit(), as the limiter's caller 1
BatchPermit ==
    /\ bpc = "permit"
    /\ CheckRateLimit(1)
    /\ bpc' = IF cpc'[1] = "idle" THEN "call" ELSE "permit"
    /\ b_permits' = IF cpc'[1] = "idle" THEN b_permits + 1 ELSE b_permits
    /\ UNCHANGED <<token_cache, b_ids, b_result, b_batches, b_i, b_n,
                   b_cached0, b_log, b_served0, b_stored, b_fresh0>>

\* main.py:98-115: the provider call for the batch and what is done with its
\* answer, up to the next await, the return (main.py:117) or the exception
\* that leaves the function
BatchCall(outcome) ==
    /\ bpc = "call"
    /\ LET batch == b_batches[b_i]
           keys == ResponseKeys(batch, outcome)
           stored == StoreAll(keys, [cache |-> token_cache,
                                     result |-> b_result], clock)
       IN  /\ b_log' = Append(b_log, [sent |-> batch, outcome |-> outcome,
                                      returned |-> {keys[i] : i \in 1..Len(keys)}])
           /\ IF outcome \in {"undecodable", "malformed"}
              THEN /\ bpc' = "raised"
                   /\ UNCHANGED <<token_cache, b_result, b_i, b_stored>>
              ELSE /\ token_cache' = stored.cache
                   /\ b_stored' =
                          [k \in {keys[i] : i \in 1..Len(keys)} |->
                             [value |-> TokenInfo, time |-> clock,
                              answered |-> <<[value |-> TokenInfo,
                                              time |-> clock]>>]]
                          @@ b_stored
                   /\ b_result' = stored.result
                   /\ b_i' = b_i + 1
                   /\ bpc' = IF b_i = Len(b_batches) THEN "returned"
                             ELSE "permit"
    /\ UNCHANGED <<b_ids, b_batches, b_n, b_cached0, b_permits, b_served0,
                   b_fresh0>>
    /\ UNCHANGED rlVars

\* The provider's latest answer on record for the key, if any
Answered(k) == IF k \in DOMAIN b_stored THEN b_stored[k].answered ELSE <<>>

\* main.py:901-906: get_top_tokens_by_category caches the tokens it returns
CacheTopTokens(id) ==
    /\ token_cache' = TTLPut(token_cache, id, TokenBrief, clock,
                             TOKEN_INFO_MAXSIZE, TOKEN_INFO_TTL)
    /\ b_stored' = (Str(id) :> [value |-> TokenBrief, time |-> clock,
                                answered |-> Answered(Str(id))])
                    @@ b_stored
    /\ UNCHANGED <<bpc, b_ids, b_result, b_batches, b_i, b_n, b_cached0,
                   b_log, b_permits, b_served0, b_fresh0>>
    /\ UNCHANGED rlVars

\* Half the ttl of the token-info cache passes.
BatchTick ==
    /\ clock < TOKEN_INFO_TTL
    /\ clock' = clock + TOKEN_INFO_TTL \div 2
    /\ grantLog' = SelectSeq(grantLog,
                             LAMBDA t : clock' - t < RATE_LIMIT_WINDOW)
    /\ UNCHANGED <<last_calls, cpc, wake, waited, waiting>>
    /\ UNCHANGED batchVars

\* ------------------------------------------------------------------------
\* Normalization of a historical price series (main.py:698-722, 970-992)

\* A raw quote is [timestamp, iso, quote, usd]:
\*   timestamp  <<>> when the key is absent, <<t>> otherwise, t being the
\*              rank of the string among the timestamps
\*   iso        the timestamp is there and datetime.fromisoformat takes it
\*   quote      <<>> when quote["quote"]["USD"]["price"] has an absent key,
\*              <<price>> otherwise, price being <<>> for a JSON null and
\*              <<n>> for a number
\*   usd        quote["quote"]["USD"] is there and is not empty (it holds
\*              the price or other figures)
\* A normalized point is [timestamp, price, percent_change], price as above
\* and percent_change in hundredths.
Null == <<>>
Num(n) == <<n>>
IsNum(price) == Len(price) = 1

\* Prices a provider may send; 0 is among them
Prices == {0, 90, 100}

RawTimestamps == {<<>>} \cup {<<t>> : t \in 1..MaxTimestamp}
RawQuoteFields == {<<>>, <<Null>>} \cup {<<Num(n)>> : n \in Prices}
RawQuotes ==
    {q \in [timestamp : RawTimestamps, iso : BOOLEAN,
            quote : RawQuoteFields, usd : BOOLEAN] :
        /\ q.quote # <<>> => q.usd
        /\ q.timestamp = <<>> => ~q.iso}

\* The raw quotes whose timestamp, when there, is well formed and whose USD
\* quote, when there, holds a price
PlainQuotes ==
    {q \in RawQuotes : /\ q.iso = (q.timestamp # <<>>)
                       /\ q.usd = (q.quote # <<>>)}

SeqsUpTo(S, n) == UNION {[1..k -> S] : k \in 0..n}

\* The arithmetic of Python floats (IEEE 754 binary64, round to nearest,
\* ties to even). A natural number is the sequence of its digits in base
\* LimbBase, the least significant first and the last one not zero; a float
\* is sig * 2^exp. The integers divided are below 2^20.

\* The bits of the significand of a float
SignificandBits == 53

\* The bits of a digit, and the base
LimbBits == 10
LimbBase == 1024

RECURSIVE Pow2(_)
Pow2(k) == IF k = 0 THEN 1 ELSE 2 * Pow2(k - 1)

\* x * m + carry, for m and carry below LimbBase
RECURSIVE MulSmall(_, _, _)
MulSmall(x, m, carry) ==
    IF x = <<>> THEN (IF carry = 0 THEN <<>> ELSE <<carry>>)
    ELSE LET p == Head(x) * m + carry
         IN  <<p % LimbBase>> \o MulSmall(Tail(x), m, p \div LimbBase)

RECURSIVE LimbsToNat(_)
LimbsToNat(x) ==
    IF x = <<>> THEN 0 ELSE Head(x) + LimbBase * LimbsToNat(Tail(x))

\* The number of bits of x
BitLen(x) ==
    IF x = <<>> THEN 0
    ELSE (Len(x) - 1) * LimbBits
         + CHOOSE k \in 1..LimbBits :
               Pow2(k - 1) <= x[Len(x)] /\ x[Len(x)] < Pow2(k)

\* Bit i of x, the lowest being bit 1
Bit(x, i) ==
    LET j == (i - 1) \div LimbBits + 1
    IN  IF i < 1 \/ j > Len(x) THEN 0
        ELSE (x[j] \div Pow2((i - 1) % LimbBits)) % 2

\* Whether one of the k lowest bits of x is 1
LowBits(x, k) == \E i \in 1..k : Bit(x, i) = 1

\* x with its k lowest bits dropped
ShiftRight(x, k) ==
    LET q == k \div LimbBits
        r == k % LimbBits
        limb(i) == IF i > Len(x) THEN 0 ELSE x[i]
        y == [i \in 1..(Len(x) - q) |->
                 limb(i + q) \div Pow2(r)
                 + (limb(i + q + 1) % Pow2(r)) * Pow2(LimbBits - r)]
    IN  IF q >= Len(x) THEN <<>>
        ELSE IF y[Len(y)] = 0 THEN SubSeq(y, 1, Len(y) - 1) ELSE y

\* The number x, plus a non-zero amount below its lowest bit when `sticky`,
\* rounded to SignificandBits bits: the bits kept and the number of low bits
\* dropped
RoundToSignificand(x, sticky) ==
    IF BitLen(x) <= SignificandBits THEN [sig |-> x, drop |-> 0]
    ELSE LET drop == BitLen(x) - SignificandBits
             kept == ShiftRight(x, drop)
             rest == sticky \/ LowBits(x, drop - 1)
             up == Bit(x, drop) = 1 /\ (rest \/ Bit(kept, 1) = 1)
             inc == IF up THEN MulSmall(kept, 1, 1) ELSE kept
         IN  IF BitLen(inc) > SignificandBits
             THEN [sig |-> ShiftRight(inc, 1), drop |-> drop + 1]
             ELSE [sig |-> inc, drop |-> drop]

\* n / d as (n1 / d1) * 2^e with d1 <= n1 < 2 * d1, for n, d > 0
RECURSIVE ScaleQuotient(_, _, _)
ScaleQuotient(n, d, e) ==
    IF n < d THEN ScaleQuotient(2 * n, d, e - 1)
    ELSE IF n >= 2 * d THEN ScaleQuotient(n, 2 * d, e + 1)
    ELSE [n |-> n, d |-> d, e |-> e]

\* The first k digits of r / d after the point (r < d), the lowest first, and
\* the remainder
RECURSIVE FractionLimbs(_, _, _)
FractionLimbs(r, d, k) ==
    IF k = 0 THEN [limbs |-> <<>>, rem |-> r]
    ELSE LET limb == (r * LimbBase) \div d
             rest == FractionLimbs((r * LimbBase) % d, d, k - 1)
         IN  [limbs |-> rest.limbs \o <<limb>>, rem |-> rest.rem]

\* The float n / d for n, d > 0: the quotient to SignificandBits bits after
\* the point, rounded
FloatDiv(n, d) ==
    LET scaled == ScaleQuotient(n, d, 0)
        whole == SignificandBits \div LimbBits
        odd == Pow2(SignificandBits % LimbBits)
        top == (scaled.n * odd) \div scaled.d
        frac == FractionLimbs((scaled.n * odd) % scaled.d, scaled.d, whole)
        rounded == RoundToSignificand(frac.limbs \o <<top>>, frac.rem # 0)
    IN  [sig |-> rounded.sig,
         exp |-> scaled.e - SignificandBits + rounded.drop]

\* The float x * 100
FloatTimes100(x) ==
    LET rounded == RoundToSignificand(MulSmall(x.sig, 100, 0), FALSE)
    IN  [sig |-> rounded.sig, exp |-> x.exp + rounded.drop]

\* round(x, 2) of a float x >= 0, in hundredths: the hundredth nearest to the
\* value of the float, the even one when the float is half-way
FloatRound2(x) ==
    LET z == MulSmall(x.sig, 100, 0)
    IN  IF x.exp >= 0 THEN LimbsToNat(z) * Pow2(x.exp)
        ELSE LET k == 0 - x.exp
                 n == LimbsToNat(ShiftRight(z, k))
                 up == Bit(z, k) = 1 /\ (LowBits(z, k - 1) \/ n % 2 = 1)
             IN  IF up THEN n + 1 ELSE n

\* round((a / b) * 100, 2) in Python floats, in hundredths, for integers a
\* and b # 0
RoundHundredths(a, b) ==
    LET na == IF a < 0 THEN 0 - a ELSE a
        nb == IF b < 0 THEN 0 - b ELSE b
        h == FloatRound2(FloatTimes100(FloatDiv(na, nb)))
    IN  IF a = 0 THEN 0
        ELSE IF (a < 0) = (b < 0) THEN h ELSE 0 - h

\* The percentage changes between the prices of the model
PercentTable ==
    [c \in Prices, p \in Prices \ {0} |-> RoundHundredths(c - p, p)]

\* main.py:712, 982: ((current_price - prev_price) / prev_price) * 100, then
\* round(percent_change, 2) (main.py:717, 987)
PercentChange(current_price, prev_price) ==
    IF <<current_price, prev_price>> \in DOMAIN PercentTable
    THEN PercentTable[current_price, prev_price]
    ELSE RoundHundredths(current_price - prev_price, prev_price)

\* The quotes are processed in the order of the payload.
PayloadOrder(quotes) == quotes
\* sorted(quotes, key=lambda x: x["timestamp"]): a stable sort
RECURSIVE SortedQuotes(_)
SortedQuotes(quotes) ==
    IF quotes = <<>> THEN <<>>
    ELSE LET front == SortedQuotes(SubSeq(quotes, 1, Len(quotes) - 1))
             last == quotes[Len(quotes)]
             keep == {i \in 1..Len(front) :
                         front[i].timestamp[1] <= last.timestamp[1]}
         IN  SubSeq(front, 1, Cardinality(keep))
             \o <<last>>
             \o SubSeq(front, Cardinality(keep) + 1, Len(front))

\* One round of the loop over sorted_quotes (main.py:705-722, 977-992);
\* `acc` holds price_history, prev_price (<<>> for None, <<price>>
\* otherwise) and the exception that ended the loop, if any
NormalizeOne(quote, acc) ==
    IF acc.error # "none" THEN acc
    ELSE IF quote.quote = <<>>
    THEN [acc EXCEPT !.error = "KeyError"]
    ELSE LET current_price == quote.quote[1]
             has_prev == acc.prev_price # <<>>
             prev_price == acc.prev_price[1]
         IN  IF has_prev /\ (~IsNum(current_price) \/ ~IsNum(prev_price))
             THEN [acc EXCEPT !.error = "TypeError"]
             ELSE IF has_prev /\ prev_price[1] = 0
             THEN [acc EXCEPT !.error = "ZeroDivisionError"]
             ELSE [price_history |->
                       Append(acc.price_history,
                              [timestamp |-> quote.timestamp[1],
                               price |-> current_price,
                               percent_change |->
                                   IF has_prev
                                   THEN PercentChange(current_price[1],
                                                      prev_price[1])
                                   ELSE 0]),
                   prev_price |-> IF current_price = Null THEN <<>>
                                  ELSE <<current_price>>,
                   error |-> "none"]

RECURSIVE NormalizeAll(_, _)
NormalizeAll(quotes, acc) ==
    IF quotes = <<>> THEN acc
    ELSE NormalizeAll(Tail(quotes), NormalizeOne(Head(quotes), acc))

\* main.py:970-992 and 698-722: the sort, then the loop
NormalizeSeries(quotes) ==
    IF \E i \in 1..Len(quotes) : quotes[i].timestamp = <<>>
    THEN [price_history |-> <<>>, prev_price |-> <<>>, error |-> "KeyError"]
    ELSE NormalizeAll(SortedQuotes(quotes),
                      [price_history |-> <<>>, prev_price |-> <<>>,
                       error |-> "none"])

\* main.py:938: cache_key = f"{token_id}_{days}"
DecimalDigit(d) ==
    CASE d = 0 -> "0" [] d = 1 -> "1" [] d = 2 -> "2" [] d = 3 -> "3"
      [] d = 4 -> "4" [] d = 5 -> "5" [] d = 6 -> "6" [] d = 7 -> "7"
      [] d = 8 -> "8" [] d = 9 -> "9"

\* The decimal digits of a natural number
RECURSIVE Digits(_)
Digits(n) ==
    IF n < 10 THEN <<DecimalDigit(n)>>
    ELSE Digits(n \div 10) \o <<DecimalDigit(n % 10)>>

\* main.py:938: an int in an f-string, as the sequence of its characters
Decimal(n) == IF n < 0 THEN <<"-">> \o Digits(0 - n) ELSE Digits(n)

\* The cache key is the token id alone.
HistoryKeyByToken(id, days) == Decimal(id)
\* main.py:938: cache_key = f"{token_id}_{days}"
HistoryKey(id, days) == Decimal(id) \o <<"_">> \o Decimal(days)

\* main.py:621, 396, 689, 950: await check_rate_limit() ahead of the
\* historical-quotes call of each handler, as the limiter's caller 1
NormPermit ==
    /\ npc = "input"
    /\ CheckRateLimit(1)
    /\ npc' = IF cpc'[1] = "idle" THEN "call" ELSE "input"
    /\ UNCHANGED <<raw_quotes, all_tokens_history, doge_response,
                   memes_response, compare_response>>

\* get_tokens_historical_data for token 1, whose info is known and whose
\* history is not cached (main.py:968-1007): an exception leaves the token
\* out of the body
TokensBody(quotes) ==
    LET n == NormalizeSeries(quotes)
    IN  IF n.error = "none"
        THEN <<[id |-> 1, history |-> n.price_history]>>
        ELSE <<>>

\* main.py:952-1009, for the default days: the provider's answer with the
\* quotes; the series is stored in HISTORICAL_CACHE (main.py:1002) and
\* returned
TokensHistorical ==
    /\ npc = "call"
    /\ npc' = "tokens"
    /\ all_tokens_history' = TokensBody(raw_quotes)
    /\ historical_cache' =
           IF all_tokens_history' = <<>> THEN historical_cache
           ELSE TTLPut(historical_cache, HistoryKey(1, DefaultDays),
                       all_tokens_history'[1], clock,
                       HISTORICAL_MAXSIZE, HISTORICAL_TTL)
    /\ UNCHANGED <<raw_quotes, doge_response, memes_response,
                   compare_response>>

\* get_doge_history (main.py:693-729): an exception becomes a 500
DogeBody(quotes) ==
    LET n == NormalizeSeries(quotes)
    IN  IF n.error = "none"
        THEN [status |-> 200, body |-> n.price_history]
        ELSE [status |-> 500, body |-> <<>>]

DogeHistory ==
    /\ npc = "call"
    /\ npc' = "doge"
    /\ doge_response' = DogeBody(raw_quotes)
    /\ UNCHANGED <<raw_quotes, all_tokens_history, memes_response,
                   compare_response>>

\* main.py:624-651 and 397-420: the loop over quotes of get_memes_historical
\* and of compare_categories. A quote without a timestamp, whose timestamp
\* fromisoformat rejects (ValueError, caught in the loop) or whose USD quote
\* is missing or empty is passed over; the others become data points,
\* in the order of the payload (the data point holds the timestamp and
\* figures of the USD quote other than the price, which is not read).
CollectQuotes(quotes) ==
    LET kept == SelectSeq(quotes,
                          LAMBDA q : q.timestamp # <<>> /\ q.iso /\ q.usd)
    IN  [i \in 1..Len(kept) |-> [timestamp |-> kept[i].timestamp[1]]]

\* get_memes_historical (main.py:604-658)
MemesHistorical ==
    /\ npc = "call"
    /\ npc' = "memes"
    /\ memes_response' = CollectQuotes(raw_quotes)
    /\ UNCHANGED <<raw_quotes, all_tokens_history, doge_response,
                   compare_response>>

\* compare_categories for one category (main.py:383-425)
CompareCategories ==
    /\ npc = "call"
    /\ npc' = "compare"
    /\ compare_response' = CollectQuotes(raw_quotes)
    /\ UNCHANGED <<raw_quotes, all_tokens_history, doge_response,
                   memes_response>>

\* ------------------------------------------------------------------------
\* get_top_tokens_by_category (main.py:848-921)

\* A name is the sequence of its characters.
LowerChar(c) ==
    CASE c = "M" -> "m"
      [] c = "E" -> "e"
      [] OTHER -> c

\* str.lower()
Lower(name) == [i \in 1..Len(name) |-> LowerChar(name[i])]

\* The cache key is the name as it was asked for.
CategoryKeyAsGiven(name) == name
\* main.py:854, 870: the key of CATEGORY_CACHE
CategoryKey(name) == Lower(name)

\* The names of the model: "Me", "me" and the prefix "m"
Names == {<<"M", "e">>, <<"m", "e">>, <<"m">>}

\* The category lists the provider may send. A category is [id, name], id
\* being <<>> when the key is absent and <<i>> otherwise; ids are positions,
\* and the categories of a list carry their ids or all lack them
CategoryLists ==
    {[i \in 1..Len(ns) |-> [id |-> IF ids THEN <<i>> ELSE <<>>,
                            name |-> ns[i]]] :
        ns \in SeqsUpTo(Names, MaxCategories), ids \in BOOLEAN}

\* The listed category's name begins with the name asked for.
NameStartsWith(cat, name) ==
    /\ Len(Lower(cat.name)) >= Len(Lower(name))
    /\ SubSeq(Lower(cat.name), 1, Len(name)) = Lower(name)
\* main.py:868-869: the comparison of a listed category with the name asked
\* for
NameMatches(cat, name) == Lower(cat.name) = Lower(name)

\* main.py:868-872: the first category of the list that matches, <<>> when
\* the loop ends without a match
FindCategory(categories, name) ==
    LET hits == {i \in 1..Len(categories) : NameMatches(categories[i], name)}
    IN  IF hits = {} THEN <<>>
        ELSE <<categories[CHOOSE i \in hits : \A j \in hits : i <= j]>>

\* The market caps of the model: the key absent, null, or a number
MarketCaps == {<<>>, <<Null>>, <<Num(5)>>, <<Num(7)>>}

\* The symbol of a coin
Symbol == "SYM"

\* The coin lists the provider may send. A coin is [id, symbol, marketCap],
\* symbol being <<>> when the key is absent; ids are positions and every
\* coin has its name. The coins all carry a symbol, or their market caps
\* are numbers and one of them at least has no symbol
FullCoinLists ==
    {[i \in 1..Len(ms) |->
        [id |-> i, symbol |-> <<Symbol>>, marketCap |-> ms[i]]] :
        ms \in SeqsUpTo(MarketCaps, MaxCoins)}
BareCoinLists ==
    {[i \in 1..Len(cs) |->
        [id |-> i, symbol |-> cs[i][1], marketCap |-> <<Num(cs[i][2])>>]] :
        cs \in {c \in SeqsUpTo({<<>>, <<Symbol>>} \X {5, 7}, MaxCoins) :
                   \E i \in 1..Len(c) : c[i][1] = <<>>}}
CoinLists == FullCoinLists \cup BareCoinLists

\* main.py:897: float(x.get("marketCap", 0) or 0)
CapKey(coin) ==
    IF coin.marketCap = <<>> THEN 0
    ELSE IF coin.marketCap = <<Null>> THEN 0
    ELSE coin.marketCap[1][1]

\* The coins that an ascending sort puts ahead of the coin.
AscendingByCap(coins, coin) ==
    {i \in 1..Len(coins) : CapKey(coins[i]) <= CapKey(coin)}
\* main.py:895-899: sorted(..., key=..., reverse=True), a stable sort: the
\* coins it puts ahead of a coin that comes later in the payload
AheadByCap(coins, coin) ==
    {i \in 1..Len(coins) : CapKey(coins[i]) >= CapKey(coin)}

RECURSIVE SortedByCap(_)
SortedByCap(coins) ==
    IF coins = <<>> THEN <<>>
    ELSE LET front == SortedByCap(SubSeq(coins, 1, Len(coins) - 1))
             last == coins[Len(coins)]
             ahead == Cardinality(AheadByCap(front, last))
         IN  SubSeq(front, 1, ahead) \o <<last>>
             \o SubSeq(front, ahead + 1, Len(front))

\* main.py:899: [:limit], for limit >= 0
Take(s, n) == SubSeq(s, 1, Min(n, Len(s)))

\* main.py:909-914: token.get("marketCap", 0)
MarketCapOf(coin) ==
    IF coin.marketCap = <<>> THEN Num(0) ELSE coin.marketCap[1]

\* main.py:902-906: the tokens the loop caches: those ahead of the first one
\* without a symbol, whose token["symbol"] raises KeyError before anything
\* is stored for it
Cacheable(tokens) ==
    LET bare == {i \in 1..Len(tokens) : tokens[i].symbol = <<>>}
    IN  IF bare = {} THEN tokens
        ELSE SubSeq(tokens, 1, (CHOOSE i \in bare : \A j \in bare : i <= j) - 1)

\* main.py:902-906: the loop that caches the tokens returned
RECURSIVE CacheTokens(_, _, _)
CacheTokens(tokens, cache, now) ==
    IF tokens = <<>> THEN cache
    ELSE CacheTokens(Tail(tokens),
                     TTLPut(cache, Head(tokens).id, TokenBrief, now,
                            TOKEN_INFO_MAXSIZE, TOKEN_INFO_TTL),
                     now)

\* The rank of the next assignment or successful get
NextUse ==
    LET ranks == {t_resolved[k].used : k \in DOMAIN t_resolved}
    IN  IF ranks = {} THEN 1
        ELSE 1 + CHOOSE u \in ranks : \A v \in ranks : v <= u

\* The other names assigned or got since the latest use of the name
UsedSince(k) ==
    {j \in DOMAIN t_resolved \ {k} : t_resolved[j].used > t_resolved[k].used}

\* Nothing is on record for the name asked for
NotResolved == [resolved |-> FALSE, with_id |-> FALSE, others |-> 0]

\* What is on record for the name when the request for it arrives
Asked(name) ==
    LET k == Lower(name)
    IN  IF /\ k \in DOMAIN t_resolved
           /\ clock - t_resolved[k].time < CATEGORY_TTL
        THEN [resolved |-> TRUE,
              with_id |-> t_resolved[k].category.id # <<>>,
              others |-> Cardinality(UsedSince(k))]
        ELSE NotResolved

\* main.py:851-857: the request arrives and the category cache is read
TopStart(name, n) ==
    /\ tpc \in {"idle", "done"}
    /\ t_n < MaxTopRequests
    /\ t_n' = t_n + 1
    /\ category_name' = name
    /\ limit' = n
    /\ category_cache' = TTLTouch(category_cache, CategoryKey(name), clock)
    /\ t_trace' = <<>>
    /\ t_fresh0' = Asked(name)
    /\ t_resolved' =
           IF /\ TTLContains(category_cache, CategoryKey(name), clock)
              /\ Lower(name) \in DOMAIN t_resolved
           THEN [t_resolved EXCEPT ![Lower(name)].used = NextUse]
           ELSE t_resolved
    /\ IF TTLContains(category_cache, CategoryKey(name), clock)
       THEN /\ target_category' =
                   <<CacheEntry(category_cache, CategoryKey(name)).value>>
            /\ tpc' = "permit2"
       ELSE /\ target_category' = <<>>
            /\ tpc' = "permit1"
    /\ top_response' = [status |-> 0, body |-> <<>>]
    /\ t_categories' = None
    /\ t_coins' = None
    /\ UNCHANGED <<rlVars, token_cache, b_stored>>

\* main.py:858, 878: await check_rate_limit(), as the limiter's caller 1.
\* After the second permit the arguments of the category call are
\* evaluated (main.py:881-886): target_category["id"] raises KeyError when
\* the category has no id, and the request ends with 500 before any call
\* (main.py:919-921)
TopPermit ==
    /\ tpc \in {"permit1", "permit2"}
    /\ CheckRateLimit(1)
    /\ LET granted == cpc'[1] = "idle"
           key_error == /\ granted
                        /\ tpc = "permit2"
                        /\ target_category[1].id = <<>>
       IN  /\ t_trace' = IF granted THEN Append(t_trace, "permit")
                         ELSE t_trace
           /\ tpc' = IF ~granted THEN tpc
                     ELSE IF tpc = "permit1" THEN "call1"
                     ELSE IF key_error THEN "done"
                     ELSE "call2"
           /\ top_response' = IF key_error
                              THEN [status |-> 500, body |-> <<>>]
                              ELSE top_response
           /\ target_category' = IF key_error THEN <<>> ELSE target_category
    /\ UNCHANGED <<t_resolved, t_fresh0>>
    /\ t_categories' = None
    /\ UNCHANGED <<category_cache, category_name, limit, t_n, t_coins,
                   token_cache, b_stored>>

\* main.py:860-875, 915-920: the provider's category list arrives, or the
\* call fails; an exception raised here leaves through the handlers at the
\* end of the function
TopCategories(outcome, categories) ==
    /\ tpc = "call1"
    /\ t_trace' = Append(t_trace, "categories")
    /\ UNCHANGED t_fresh0
    /\ IF outcome = "http_error"
       THEN /\ top_response' = [status |-> 500, body |-> <<>>]
            /\ tpc' = "done"
            /\ UNCHANGED <<category_cache, target_category, t_categories,
                           t_resolved>>
       ELSE LET found == FindCategory(categories, category_name)
            IN  /\ t_categories' = Some(categories)
                /\ target_category' = found
                /\ IF found # <<>>
                   THEN /\ category_cache' =
                               TTLPut(category_cache,
                                      CategoryKey(category_name),
                                      found[1], clock, CATEGORY_MAXSIZE,
                                      CATEGORY_TTL)
                        /\ t_resolved' =
                               (Lower(category_name) :>
                                  [time |-> clock, name |-> category_name,
                                   category |-> found[1], used |-> NextUse])
                               @@ t_resolved
                        /\ tpc' = "permit2"
                        /\ UNCHANGED top_response
                   ELSE \* raise HTTPException(status_code=404) (main.py:875)
                        \* is caught by `except Exception` (main.py:918-920)
                        /\ top_response' = [status |-> 500, body |-> <<>>]
                        /\ tpc' = "done"
                        /\ UNCHANGED <<category_cache, t_resolved>>
    /\ UNCHANGED <<category_name, limit, t_n, t_coins, rlVars, token_cache,
                   b_stored>>

\* main.py:880-920: the coins of the category arrive, or the call fails. A
\* token without a symbol among those returned ends the request with 500
\* (KeyError, main.py:919-921), the tokens ahead of it having been cached
TopCoins(outcome, coins) ==
    /\ tpc = "call2"
    /\ tpc' = "done"
    /\ t_trace' = Append(t_trace, "category")
    /\ UNCHANGED <<t_resolved, t_fresh0>>
    /\ target_category' = <<>>
    /\ IF outcome = "http_error"
       THEN /\ top_response' = [status |-> 500, body |-> <<>>]
            /\ UNCHANGED <<token_cache, t_coins, b_stored>>
       ELSE LET tokens == Take(SortedByCap(coins), limit)
                cached == Cacheable(tokens)
            IN  /\ t_coins' = Some(coins)
                /\ token_cache' = CacheTokens(cached, token_cache, clock)
                /\ b_stored' =
                       [k \in {Str(cached[i].id) : i \in 1..Len(cached)} |->
                          [value |-> TokenBrief, time |-> clock,
                           answered |-> Answered(k)]]
                       @@ b_stored
                /\ top_response' =
                       IF cached # tokens
                       THEN [status |-> 500, body |-> <<>>]
                       ELSE [status |-> 200,
                             body |-> [i \in 1..Len(tokens) |->
                                         [id |-> tokens[i].id,
                                          market_cap |->
                                              MarketCapOf(tokens[i])]]]
    /\ UNCHANGED <<category_cache, category_name, limit, t_n, t_categories,
                   rlVars>>

\* Half the ttl of the category cache passes.
TopTick ==
    /\ clock < CATEGORY_TTL
    /\ clock' = clock + CATEGORY_TTL \div 2
    /\ grantLog' = SelectSeq(grantLog,
                             LAMBDA t : clock' - t < RATE_LIMIT_WINDOW)
    /\ UNCHANGED <<last_calls, cpc, wake, waited, waiting>>
    /\ UNCHANGED topVars

\* ------------------------------------------------------------------------
\* get_tokens_historical_data (main.py:923-1012)

\* The id lists asked for
MultiIdLists == {<<1>>, <<2, 1>>, <<1, 2, 1>>}

\* The provider's answers to GET /v2/cryptocurrency/quotes/historical for a
\* token:
\*   "error"  a transport error, a non-2xx status or a body that is not JSON
\*            (an exception from client.get, raise_for_status or json())
\*   "empty"  200 without "data"
\*   "ok"     200 with quotes: two good quotes out of order, or a good quote
\*            followed by one with a null price
MultiAnswers ==
    {[outcome |-> "error", quotes |-> <<>>],
     [outcome |-> "empty", quotes |-> <<>>],
     [outcome |-> "ok",
      quotes |-> <<[timestamp |-> <<2>>, quote |-> <<Num(100)>>,
                    iso |-> TRUE, usd |-> TRUE],
                   [timestamp |-> <<1>>, quote |-> <<Num(90)>>,
                    iso |-> TRUE, usd |-> TRUE]>>],
     [outcome |-> "ok",
      quotes |-> <<[timestamp |-> <<1>>, quote |-> <<Num(90)>>,
                    iso |-> TRUE, usd |-> TRUE],
                   [timestamp |-> <<2>>, quote |-> <<Null>>,
                    iso |-> TRUE, usd |-> TRUE]>>]}


\* The values of days of the model: the default and a longer period
LongDays == 17
DaysValues == {DefaultDays, LongDays}

\* What is noted of a position of token_ids that the loop has passed
Passed(kind, id, answer, cached) ==
    [kind |-> kind, id |-> id, answer |-> answer, cached |-> cached]

NoAnswer == [outcome |-> "none", quotes |-> <<>>]

\* An exception in the processing of a token has the token tried again.
RetryToken(st) == st
\* An exception in the processing of a token ends the whole request.
AbortRequest(st) == [st EXCEPT !.i = @ + 1, !.pc = "failed"]
\* main.py:1005-1007: except Exception: continue
OnTokenError(st) == [st EXCEPT !.i = @ + 1]

\* Every token is taken to have its metadata.
InfoAssumed(info, id) == TRUE
\* main.py:945-946: token_data = token_info.get(str(token_id)) is there
\* (`if not token_data` fails)
HasTokenData(info, id) == Str(id) \in DOMAIN info

\* main.py:936-950: the loop over token_ids from position st.i up to its
\* next await (check_rate_limit, main.py:950), or to the return
\* (main.py:1009) when no token is left. `st` holds the position, the
\* list all_tokens_history, the cache and the positions passed.
RECURSIVE LoopFrom(_, _, _, _, _)
LoopFrom(ids, days, info, st, now) ==
    IF st.pc = "failed" THEN st
    ELSE IF st.i > Len(ids) THEN [st EXCEPT !.pc = "done"]
    ELSE LET id == ids[st.i]
             key == HistoryKey(id, days)
             touched == TTLTouch(st.cache, key, now)
         IN  IF TTLContains(st.cache, key, now)
             THEN LET cached == CacheEntry(st.cache, key).value
                  IN  LoopFrom(ids, days, info,
                          [i |-> st.i + 1,
                           history |-> Append(st.history, cached),
                           cache |-> touched,
                           log |-> Append(st.log,
                                     Passed("cached", id, NoAnswer,
                                            <<cached>>)),
                           pc |-> st.pc],
                          now)
             ELSE IF ~HasTokenData(info, id)
             THEN LoopFrom(ids, days, info,
                      [i |-> st.i + 1,
                       history |-> st.history,
                       cache |-> touched,
                       log |-> Append(st.log,
                                 Passed("noinfo", id, NoAnswer, <<>>)),
                       pc |-> st.pc],
                      now)
             ELSE [st EXCEPT !.cache = touched, !.pc = "permit"]

\* main.py:994-1003: the token_history of a token
TokenHistory(id, token_data, price_history) ==
    [id |-> id, info |-> token_data, history |-> price_history]

\* main.py:929-934: the request arrives and batch_get_token_info is called
MultiStart(ids, days) ==
    /\ mpc \in {"idle", "done"}
    /\ BatchStart(ids)
    /\ mpc' = "info"
    /\ m_ids' = ids
    /\ m_days' = days
    /\ m_cached0' = \A i \in 1..Len(ids) :
                        TTLContains(historical_cache,
                                    HistoryKey(ids[i], days), clock)
    /\ UNCHANGED m_stored
    /\ token_info' = <<>>
    /\ m_i' = 1
    /\ m_history' = <<>>
    /\ m_response' = [status |-> 0, body |-> <<>>]
    /\ m_log' = <<>>
    /\ UNCHANGED historical_cache

\* How the request stands after the loop has run up to st
MultiSettle(st) ==
    /\ m_i' = st.i
    /\ m_history' = st.history
    /\ historical_cache' = st.cache
    /\ m_log' = st.log
    /\ mpc' = IF st.pc = "failed" THEN "done" ELSE st.pc
    /\ m_response' =
           IF st.pc = "done" THEN [status |-> 200, body |-> st.history]
           ELSE IF st.pc = "failed" THEN [status |-> 500, body |-> <<>>]
           ELSE m_response

\* main.py:934-950, 1011-1013: batch_get_token_info is over. Its result
\* becomes token_info and the loop starts; its exception becomes a 500.
MultiResume ==
    /\ mpc = "info"
    /\ bpc \in {"returned", "raised"}
    /\ IF bpc = "raised"
       THEN /\ mpc' = "done"
            /\ m_response' = [status |-> 500, body |-> <<>>]
            /\ UNCHANGED <<token_info, m_i, m_history, historical_cache,
                           m_log>>
       ELSE /\ token_info' = b_result
            /\ MultiSettle(LoopFrom(m_ids, m_days, b_result,
                               [i |-> 1, history |-> <<>>,
                                cache |-> historical_cache, log |-> <<>>,
                                pc |-> "loop"],
                               clock))
    /\ UNCHANGED <<m_ids, m_days, m_stored, m_cached0, rlVars, batchVars>>

\* main.py:950: await check_rate_limit(), as the limiter's caller 1
MultiPermit ==
    /\ mpc = "permit"
    /\ CheckRateLimit(1)
    /\ mpc' = IF cpc'[1] = "idle" THEN "call" ELSE "permit"
    /\ UNCHANGED <<historical_cache, m_ids, token_info, m_i, m_history,
                   m_response, m_log, m_days, m_stored, m_cached0,
                   batchVars>>

\* main.py:951-1009: the provider's answer for the token at position m_i,
\* what is done with it, and the loop up to its next await or to the return
MultiCall(answer) ==
    /\ mpc = "call"
    /\ LET id == m_ids[m_i]
           n == NormalizeSeries(answer.quotes)
           st == [i |-> m_i, history |-> m_history,
                  cache |-> historical_cache,
                  log |-> Append(m_log, Passed("call", id, answer, <<>>)),
                  pc |-> "loop"]
           token_history ==
               TokenHistory(id, token_info[Str(id)], n.price_history)
       IN  /\ MultiSettle(LoopFrom(m_ids, m_days, token_info,
                  IF answer.outcome # "ok" \/ n.error # "none"
                  THEN OnTokenError(st)
                  ELSE [st EXCEPT
                          !.i = @ + 1,
                          !.history = Append(@, token_history),
                          !.cache = TTLPut(@, HistoryKey(id, m_days),
                                           token_history, clock,
                                           HISTORICAL_MAXSIZE,
                                           HISTORICAL_TTL)],
                  clock))
           /\ m_stored' =
                  IF answer.outcome # "ok" \/ n.error # "none"
                  THEN m_stored
                  ELSE (HistoryKey(id, m_days) :>
                            [id |-> id, days |-> m_days]) @@ m_stored
    /\ UNCHANGED <<m_ids, m_days, m_cached0, token_info, rlVars, batchVars>>

\* ------------------------------------------------------------------------
\* get_categories (main.py:157-193)

\* main.py:172-181: a category document, by its id
CatDoc(n) == [id |-> Str(n)]

\* The provider's category lists
CategorySnapshots ==
    {<<>>, <<CatDoc(1)>>, <<CatDoc(1), CatDoc(2)>>, <<CatDoc(2), CatDoc(3)>>}

\* main.py:158-163: a request arrives and reaches await check_rate_limit()
CatStart(r) ==
    /\ cat_pc[r] \in {"idle", "done", "failed"}
    /\ cat_n < MaxCatRequests
    /\ cat_n' = cat_n + 1
    /\ cat_pc' = [cat_pc EXCEPT ![r] = "permit"]
    /\ cat_data' = [cat_data EXCEPT ![r] = <<>>]
    /\ UNCHANGED <<db_categories, cat_done>>
    /\ UNCHANGED rlVars

\* main.py:163
CatPermit(r) ==
    /\ cat_pc[r] = "permit"
    /\ CheckRateLimit(r)
    /\ cat_pc' = [cat_pc EXCEPT
                    ![r] = IF cpc'[r] = "idle" THEN "call" ELSE "permit"]
    /\ UNCHANGED <<db_categories, cat_data, cat_done, cat_n>>

\* The snapshot is replaced whatever the answer lists.
AlwaysReplace(list) == TRUE
\* main.py:172: if data.get("data")
HasCategories(list) == list # <<>>

\* main.py:164-185, 190-192: the provider's answer, up to await delete_many,
\* to the return (no categories in the answer) or to the 500
CatCall(r, outcome, list) ==
    /\ cat_pc[r] = "call"
    /\ IF outcome # "ok"
       THEN /\ cat_pc' = [cat_pc EXCEPT ![r] = "failed"]
            /\ UNCHANGED <<cat_data, cat_done>>
       ELSE IF ~HasCategories(list)
       THEN /\ cat_pc' = [cat_pc EXCEPT ![r] = "done"]
            /\ cat_done' = cat_done \cup {list}
            /\ UNCHANGED cat_data
       ELSE /\ cat_pc' = [cat_pc EXCEPT ![r] = "delete"]
            /\ cat_data' = [cat_data EXCEPT ![r] = list]
            /\ UNCHANGED cat_done
    /\ UNCHANGED <<db_categories, cat_n>>
    /\ UNCHANGED rlVars

\* main.py:184: await db.categories.delete_many({})
CatDelete(r) ==
    /\ cat_pc[r] = "delete"
    /\ db_categories' = <<>>
    /\ cat_pc' = [cat_pc EXCEPT ![r] = "insert"]
    /\ UNCHANGED <<cat_data, cat_done, cat_n>>
    /\ UNCHANGED rlVars

\* main.py:185-188: await db.categories.insert_many(data["data"]) and the
\* return
CatInsert(r) ==
    /\ cat_pc[r] = "insert"
    /\ db_categories' = db_categories \o cat_data[r]
    /\ cat_pc' = [cat_pc EXCEPT ![r] = "done"]
    /\ cat_done' = cat_done \cup {cat_data[r]}
    /\ UNCHANGED <<cat_data, cat_n>>
    /\ UNCHANGED rlVars

\* ------------------------------------------------------------------------
\* get_category_historical (main.py:195-284)

\* main.py:211: timedelta(hours=1), in seconds
FRESH_WINDOW == 3600
\* main.py:226: the interval "1d" of the points, in seconds
DAY == 86400

\* The category ids asked for: one that the provider's lists can hold and
\* one that they never hold
HistCategoryIds == {Str(1), Str(9)}

\* The values of days of the model: a short period and the default
ShortDays == 1
HistDaysValues == {ShortDays, HistDays}

\* The server's timezones of the model: UTC and five hours behind it
UtcOffsets == {0, 0 - 5 * 3600}

\* How old a point of a provider's answer is when it arrives, in seconds
PointAges == {0, DAY}

\* data["data"]["points"] of the model: a dict, so with one value for a key;
\* a point is `valid` when int(point), values["market_cap"]["USD"] and
\* values["volume_24h"]["USD"] all evaluate (main.py:245-253)
PointSets ==
    {ps \in SUBSET [age : PointAges, valid : BOOLEAN] :
        \A p, q \in ps : p.age = q.age => p = q}

\* The provider's answers: no response (status 0), or a status, whether the
\* body is JSON, and the points of the body
NoResponse == [status |-> 0, json |-> FALSE, points |-> {}]
HistAnswers ==
    {NoResponse}
    \cup [status : {204, 429}, json : {FALSE}, points : {{}}]
    \cup [status : {200, 201}, json : {TRUE}, points : PointSets]

\* main.py:233: response.raise_for_status() passes
IsSuccess(status) == status \div 100 = 2

\* main.py:248: datetime.fromtimestamp(int(point)), the local time of the
\* point, on the scale of datetime.utcnow()
FromTimestamp(t) == t + utc_offset

\* main.py:246-253: the entry of a point
HistEntry(cid, t) == [category_id |-> cid, timestamp |-> t]

\* sort("timestamp", 1) (main.py:212) and list.sort(key=timestamp)
\* (main.py:260): ascending and stable
RECURSIVE SortByTimestamp(_)
SortByTimestamp(docs) ==
    IF docs = <<>> THEN <<>>
    ELSE LET rest == SortByTimestamp(SubSeq(docs, 1, Len(docs) - 1))
             d == docs[Len(docs)]
             before == SelectSeq(rest,
                           LAMBDA e : e.timestamp <= d.timestamp)
             after == SelectSeq(rest,
                          LAMBDA e : e.timestamp > d.timestamp)
         IN  before \o <<d>> \o after

\* A set of timestamps as the list of the entries, in ascending order
RECURSIVE EntriesOf(_, _)
EntriesOf(cid, times) ==
    IF times = {} THEN <<>>
    ELSE LET t == CHOOSE x \in times : \A y \in times : x <= y
         IN  <<HistEntry(cid, t)>> \o EntriesOf(cid, times \ {t})

\* main.py:209-212: the documents of the category whose timestamp is in the
\* last hour, by timestamp
FreshData(docs, cid, now) ==
    SortByTimestamp(SelectSeq(docs,
        LAMBDA d : d.category_id = cid
                   /\ d.timestamp >= now - FRESH_WINDOW))

\* main.py:196-212: a request arrives, served by caller r, and
\* db.categories.find_one answers; up to its 500 (the category is not in
\* db.categories) or to await db.historical_data.find(...), whose bound
\* datetime.utcnow() - timedelta(hours=1) is computed here
HistStart(r, cid, days) ==
    /\ hpc[r] \in {"idle", "done"}
    /\ h_n < MaxHistRequests
    /\ h_n' = h_n + 1
    /\ h_category' = [h_category EXCEPT ![r] = cid]
    /\ h_data' = [h_data EXCEPT ![r] = <<>>]
    /\ h_permits' = [h_permits EXCEPT ![r] = 0]
    /\ h_calls' = [h_calls EXCEPT ![r] = 0]
    /\ h_start' = [h_start EXCEPT ![r] = clock]
    /\ h_days' = [h_days EXCEPT ![r] = days]
    /\ h_prev' = [h_prev EXCEPT ![r] = h_last]
    /\ h_found' = [h_found EXCEPT
                     ![r] = \E i \in 1..Len(db_categories) :
                                db_categories[i].id = cid]
    /\ IF \A i \in 1..Len(db_categories) : db_categories[i].id # cid
       THEN /\ hpc' = [hpc EXCEPT ![r] = "done"]
            /\ h_response' = [h_response EXCEPT
                                ![r] = [status |-> 500, body |-> <<>>]]
       ELSE /\ hpc' = [hpc EXCEPT ![r] = "find"]
            /\ h_response' = [h_response EXCEPT
                                ![r] = [status |-> 0, body |-> <<>>]]
    /\ UNCHANGED <<db_historical, h_bound, utc_offset, h_last>>
    /\ UNCHANGED rlVars

\* main.py:209-222: db.historical_data.find(...).sort(...).to_list answers
\* with the documents not older than the bound computed when the request
\* began; up to the return with these documents or to
\* await check_rate_limit()
HistFind(r) ==
    /\ hpc[r] = "find"
    /\ LET cached_data ==
               FreshData(db_historical, h_category[r], h_start[r])
       IN  IF cached_data # <<>>
           THEN /\ hpc' = [hpc EXCEPT ![r] = "done"]
                /\ h_response' = [h_response EXCEPT
                                    ![r] = [status |-> 200,
                                            body |-> cached_data]]
           ELSE /\ hpc' = [hpc EXCEPT ![r] = "permit"]
                /\ UNCHANGED h_response
    /\ UNCHANGED <<db_historical, h_category, h_data, h_n, h_permits,
                   h_calls, h_start, h_days, h_bound, utc_offset, h_prev,
                   h_found, h_last>>
    /\ UNCHANGED rlVars

\* main.py:222: await check_rate_limit()
HistPermit(r) ==
    /\ hpc[r] = "permit"
    /\ CheckRateLimit(r)
    /\ hpc' = [hpc EXCEPT
                 ![r] = IF cpc'[r] = "idle" THEN "call" ELSE "permit"]
    /\ h_permits' = [h_permits EXCEPT
                       ![r] = IF cpc'[r] = "idle" THEN @ + 1 ELSE @]
    /\ UNCHANGED <<db_historical, h_category, h_data, h_response, h_n,
                   h_calls, h_start, h_days, h_bound, utc_offset, h_prev,
                   h_found, h_last>>

\* The response that ends the request
HistEnd(r, status) ==
    /\ hpc' = [hpc EXCEPT ![r] = "done"]
    /\ h_response' = [h_response EXCEPT
                        ![r] = [status |-> status, body |-> <<>>]]
    /\ UNCHANGED <<h_data, h_bound>>

\* main.py:232-267, 270-284: the provider's answer, up to await delete_many,
\* whose bound datetime.utcnow() - timedelta(days=days) is computed here, or
\* to the response
HistCall(r, answer) ==
    /\ hpc[r] = "call"
    /\ h_calls' = [h_calls EXCEPT ![r] = @ + 1]
    /\ LET times == {FromTimestamp(clock - p.age) :
                        p \in {q \in answer.points : q.valid}}
       IN  IF answer.status = 0
           THEN HistEnd(r, 500)
           ELSE IF ~IsSuccess(answer.status)
           THEN HistEnd(r, answer.status)
           ELSE IF ~answer.json \/ answer.points = {}
           THEN HistEnd(r, 500)
           ELSE IF times = {}
           THEN HistEnd(r, 200)
           ELSE /\ hpc' = [hpc EXCEPT ![r] = "delete"]
                /\ h_data' = [h_data EXCEPT
                                ![r] = EntriesOf(h_category[r], times)]
                /\ h_bound' = [h_bound EXCEPT
                                 ![r] = clock - h_days[r] * DAY]
                /\ UNCHANGED h_response
    /\ UNCHANGED <<db_historical, h_category, h_n, h_permits, h_start,
                   h_days, utc_offset, h_prev, h_found, h_last>>
    /\ UNCHANGED rlVars

\* main.py:264-267: db.historical_data.delete_many(...) is applied
HistDelete(r) ==
    /\ hpc[r] = "delete"
    /\ db_historical' =
           SelectSeq(db_historical,
               LAMBDA d : ~(/\ d.category_id = h_category[r]
                            /\ d.timestamp >= h_bound[r]))
    /\ hpc' = [hpc EXCEPT ![r] = "insert"]
    /\ UNCHANGED <<h_category, h_data, h_response, h_n, h_permits, h_calls,
                   h_start, h_days, h_bound, utc_offset, h_prev, h_found,
                   h_last>>
    /\ UNCHANGED rlVars

\* main.py:268-273: await db.historical_data.insert_many(historical_data)
\* and the return
HistInsert(r) ==
    /\ hpc[r] = "insert"
    /\ db_historical' = db_historical \o h_data[r]
    /\ h_last' = <<[time |-> clock, series |-> h_data[r]]>>
    /\ hpc' = [hpc EXCEPT ![r] = "done"]
    /\ h_response' = [h_response EXCEPT
                        ![r] = [status |-> 200, body |-> h_data[r]]]
    /\ UNCHANGED <<h_category, h_data, h_n, h_permits, h_calls, h_start,
                   h_days, h_bound, utc_offset, h_prev, h_found>>
    /\ UNCHANGED rlVars

\* Half an hour passes.
HistTick ==
    /\ clock < MaxHistTicks * (FRESH_WINDOW \div 2)
    /\ clock' = clock + FRESH_WINDOW \div 2
    /\ grantLog' = SelectSeq(grantLog,
                             LAMBDA t : clock' - t < RATE_LIMIT_WINDOW)
    /\ UNCHANGED <<last_calls, cpc, wake, waited, waiting>>
    /\ UNCHANGED histVars

\* ------------------------------------------------------------------------
vars == <<rlVars, reqVars, cacheVars, batchVars, normVars, topVars,
          multiVars, catVars, histVars>>
notRL == <<reqVars, cacheVars, batchVars, normVars, topVars, multiVars,
           catVars, histVars>>
notReq == <<cacheVars, batchVars, normVars, topVars, multiVars, catVars,
            histVars>>
notCache == <<last_calls, cpc, wake, grantLog, waited, waiting, reqVars,
             batchVars,
             normVars, topVars, multiVars, catVars, histVars>>
notBatch == <<reqVars, cacheVars, normVars, topVars, multiVars, catVars,
              histVars>>
notNorm == <<rlVars, reqVars, cacheVars, batchVars, topVars, multiVars,
             catVars, histVars>>
multiRest == <<mpc, m_ids, token_info, m_i, m_history, m_response, m_log,
               m_days, m_stored, m_cached0>>
offNorm == <<reqVars, cacheVars, batchVars, topVars, catVars, histVars>>
notTop == <<reqVars, cacheVars, normVars, bpc, b_ids, b_result, b_batches,
           b_i, b_n, b_cached0, b_log, b_permits, b_served0, b_fresh0,
           multiVars, catVars, histVars>>
notMulti == <<reqVars, cacheVars, normVars, topVars, catVars, histVars>>
notCat == <<reqVars, cacheVars, batchVars, normVars, topVars, multiVars,
            histVars>>
notHist == <<reqVars, cacheVars, batchVars, normVars, topVars, multiVars,
             catVars>>

\* Nothing has happened since the module was loaded: an empty call history
\* (main.py:55) and empty caches (main.py:48-50)
NoPast == [cache |-> <<>>, resolved |-> <<>>, calls |-> <<>>]

\* The CATEGORY_MAXSIZE names resolved in the past of FullPast, in the
\* order of their resolution: "Me", then "c1", "c2", ...
PastNames ==
    [i \in 1..CATEGORY_MAXSIZE |->
        IF i = 1 THEN <<"M", "e">> ELSE <<"c">> \o Decimal(i - 1)]

\* When the i-th of them was granted its first permit and resolved: as
\* early as check_rate_limit allows for the last of them to be resolved now,
\* RATE_LIMIT_CALLS of them each RATE_LIMIT_WINDOW
PastTime(i) ==
    RATE_LIMIT_WINDOW * ((i - 1) \div RATE_LIMIT_CALLS)
    - RATE_LIMIT_WINDOW * ((CATEGORY_MAXSIZE - 1) \div RATE_LIMIT_CALLS)

\* The category the i-th name was resolved to
PastCategory(i) == [id |-> <<i>>, name |-> PastNames[i]]

\* Concurrent requests (main.py:848-871) have resolved CATEGORY_MAXSIZE
\* names, none of them has been granted its second permit (main.py:878):
\* CATEGORY_CACHE is full, its least recently used entry is that of "Me",
\* and last_calls holds the permits of the current window
FullPast ==
    [cache |->
        [i \in 1..CATEGORY_MAXSIZE |->
            Entry(CategoryKey(PastNames[i]), PastCategory(i),
                  PastTime(i) + CATEGORY_TTL)],
     resolved |->
        [k \in {Lower(PastNames[i]) : i \in 1..CATEGORY_MAXSIZE} |->
            LET i == CHOOSE j \in 1..CATEGORY_MAXSIZE :
                         Lower(PastNames[j]) = k
            IN  [time |-> PastTime(i), name |-> PastNames[i],
                 category |-> PastCategory(i), used |-> i]],
     calls |->
        SelectSeq([i \in 1..CATEGORY_MAXSIZE |-> PastTime(i)],
                  LAMBDA t : 0 - t < RATE_LIMIT_WINDOW)]

\* The state at time 0 with one of `pasts` behind it and no request in
\* progress; a historical-quotes response, one of `payloads`, is on its way
\* to a handler, and the server's timezone is one of `offsets`.
Start(payloads, offsets, pasts) ==
    /\ clock = 0
    /\ \E past \in pasts :
          /\ last_calls = past.calls
          /\ grantLog = past.calls
          /\ category_cache = past.cache
          /\ t_resolved = past.resolved
    /\ cpc = [p \in Callers |-> "idle"]
    /\ wake = [p \in Callers |-> 0]
    /\ waited = [p \in Callers |-> 0]
    /\ waiting = [p \in Callers |-> <<>>]
    /\ rhandler = [r \in Callers |-> "none"]
    /\ rprog = [r \in Callers |-> <<>>]
    /\ rpos = [r \in Callers |-> 1]
    /\ permitsGranted = [r \in Callers |-> 0]
    /\ callsStarted = [r \in Callers |-> 0]
    /\ gcache = <<>>
    /\ lastPut = [k \in CacheKeys |-> None]
    /\ recency = <<>>
    /\ lastGet = None
    /\ lastEvict = None
    /\ token_cache = <<>>
    /\ bpc = "idle"
    /\ b_ids = <<>>
    /\ b_result = <<>>
    /\ b_batches = <<>>
    /\ b_i = 1
    /\ b_n = 0
    /\ b_cached0 = {}
    /\ b_log = <<>>
    /\ b_permits = 0
    /\ b_served0 = <<>>
    /\ b_stored = <<>>
    /\ b_fresh0 = <<>>
    /\ raw_quotes \in payloads
    /\ npc = "input"
    /\ all_tokens_history = <<>>
    /\ doge_response = [status |-> 0, body |-> <<>>]
    /\ memes_response = <<>>
    /\ compare_response = <<>>
    /\ tpc = "idle"
    /\ category_name = <<>>
    /\ limit = 0
    /\ target_category = <<>>
    /\ top_response = [status |-> 0, body |-> <<>>]
    /\ t_n = 0
    /\ t_categories = None
    /\ t_coins = None
    /\ t_trace = <<>>
    /\ t_fresh0 = NotResolved
    /\ historical_cache = <<>>
    /\ mpc = "idle"
    /\ m_ids = <<>>
    /\ token_info = <<>>
    /\ m_i = 1
    /\ m_history = <<>>
    /\ m_response = [status |-> 0, body |-> <<>>]
    /\ m_log = <<>>
    /\ m_days = DefaultDays
    /\ m_stored = <<>>
    /\ m_cached0 = FALSE
    /\ db_categories = <<>>
    /\ cat_pc = [r \in Callers |-> "idle"]
    /\ cat_data = [r \in Callers |-> <<>>]
    /\ cat_done = {}
    /\ cat_n = 0
    /\ db_historical = <<>>
    /\ hpc = [r \in Callers |-> "idle"]
    /\ h_category = [r \in Callers |-> Str(1)]
    /\ h_data = [r \in Callers |-> <<>>]
    /\ h_response = [r \in Callers |-> [status |-> 0, body |-> <<>>]]
    /\ h_n = 0
    /\ h_permits = [r \in Callers |-> 0]
    /\ h_calls = [r \in Callers |-> 0]
    /\ h_start = [r \in Callers |-> 0]
    /\ h_days = [r \in Callers |-> HistDays]
    /\ h_bound = [r \in Callers |-> 0]
    /\ utc_offset \in offsets
    /\ h_prev = [r \in Callers |-> <<>>]
    /\ h_found = [r \in Callers |-> FALSE]
    /\ h_last = <<>>

\* The state after the module is loaded, in a server on UTC.  The timezone
\* is read by get_category_historical alone.
Init == Start({<<>>}, {0}, {NoPast})

\* The state after the module is loaded, in either timezone
HistInit == Start({<<>>}, UtcOffsets, {NoPast})

\* The state after the module is loaded, or with a full category cache
ResolveInit == Start({<<>>}, {0}, {NoPast, FullPast})

\* The rate limiter under callers that acquire again and again
RLNext ==
    \/ \E p \in Callers : Acquire(p) /\ UNCHANGED notRL
    \/ \E p \in Callers : Retry(p) /\ UNCHANGED notRL
    \/ Tick /\ UNCHANGED notRL

SpecRL == Init /\ [][RLNext]_vars

\* Time keeps advancing and every sleeping caller is eventually resumed.
SpecRLFair ==
    /\ SpecRL
    /\ WF_vars(Tick /\ UNCHANGED notRL)
    /\ \A p \in Callers : WF_vars(Retry(p) /\ UNCHANGED notRL)

\* The limiter with callers that may give up while they sleep
CancelNext ==
    \/ \E p \in Callers : Acquire(p) /\ UNCHANGED notRL
    \/ \E p \in Callers : Retry(p) /\ UNCHANGED notRL
    \/ \E p \in Callers : Abandon(p) /\ UNCHANGED notRL
    \/ Tick /\ UNCHANGED notRL

SpecCancel == Init /\ [][CancelNext]_vars

\* Concurrent requests, each served by one of the handlers, within one
\* instant of the limiter's clock (SpecRL is where time passes)
ReqNext ==
    \/ \E r \in Callers : ReqStart(r) /\ UNCHANGED notReq
    \/ \E r \in Callers : ReqPermit(r) /\ UNCHANGED notReq
    \/ \E r \in Callers : ReqCall(r) /\ UNCHANGED notReq
    \/ \E r \in Callers : ReqAbort(r) /\ UNCHANGED notReq
    \/ \E r \in Callers : ReqReturn(r) /\ UNCHANGED notReq

SpecReq == Init /\ [][ReqNext]_vars

\* One TTLCache under any sequence of gets and puts, as time passes
CacheNext ==
    \/ \E k \in CacheKeys : CacheGet(k) /\ UNCHANGED <<clock, notCache>>
    \/ \E k \in CacheKeys, v \in CacheValues :
          CachePut(k, v) /\ UNCHANGED <<clock, notCache>>
    \/ CacheTick /\ UNCHANGED notCache

SpecCache == Init /\ [][CacheNext]_vars

\* Fetches of token info one after the other, while other requests cache
\* token 1 and time passes
BetweenFetches == bpc \in {"idle", "returned", "raised"}

\* A list longer than a batch is asked for in the first MaxLongFetches
\* fetches only
LongAllowed(ids) == Len(ids) > BATCH_SIZE => b_n < MaxLongFetches

\* Fetches one after the other; time passes between them
BatchNext ==
    \/ \E ids \in IdLists :
          LongAllowed(ids) /\ BatchStart(ids) /\ UNCHANGED notBatch
    \/ BatchPermit /\ UNCHANGED notBatch
    \/ \E outcome \in Outcomes : BatchCall(outcome) /\ UNCHANGED notBatch
    \/ CacheTopTokens(1) /\ UNCHANGED notBatch
    \/ BetweenFetches /\ BatchTick /\ UNCHANGED notBatch

SpecBatch == Init /\ [][BatchNext]_vars

\* A historical-quotes response, one of `payloads`, reaches a handler.
NormStart(payloads) == Start(payloads, {0}, {NoPast})

\* Up to MaxQuotes plain quotes
NormInit == NormStart(SeqsUpTo(PlainQuotes, MaxQuotes))

\* Up to MaxCollected raw quotes of any kind
CollectInit == NormStart(SeqsUpTo(RawQuotes, MaxCollected))

\* The handlers that normalize a price series
NormNext ==
    \/ NormPermit /\ UNCHANGED <<offNorm, multiVars>>
    \/ TokensHistorical /\ UNCHANGED <<rlVars, offNorm, multiRest>>
    \/ DogeHistory /\ UNCHANGED notNorm

SpecNorm == NormInit /\ [][NormNext]_vars

\* The handlers that read historical quotes
CollectNext ==
    \/ NormPermit /\ UNCHANGED <<offNorm, multiVars>>
    \/ TokensHistorical /\ UNCHANGED <<rlVars, offNorm, multiRest>>
    \/ DogeHistory /\ UNCHANGED notNorm
    \/ MemesHistorical /\ UNCHANGED notNorm
    \/ CompareCategories /\ UNCHANGED notNorm

SpecCollect == CollectInit /\ [][CollectNext]_vars

\* Top-tokens requests one after the other; the provider may answer each
\* call with any list of the model, or fail.
\* Any limit and any lists for the first request; limit 1 and lists of one
\* category and of one coin for the requests after it
FirstRequest == t_n = 1
TopNext ==
    \/ \E name \in Names, n \in 0..MaxCoins :
          (n # 1 => t_n = 0) /\ TopStart(name, n) /\ UNCHANGED notTop
    \/ TopPermit /\ UNCHANGED notTop
    \/ \E categories \in CategoryLists :
          /\ Len(categories) > 1 => FirstRequest
          /\ TopCategories("ok", categories)
          /\ UNCHANGED notTop
    \/ TopCategories("http_error", <<>>) /\ UNCHANGED notTop
    \/ \E coins \in CoinLists :
          /\ Len(coins) # 1 => FirstRequest
          /\ TopCoins("ok", coins)
          /\ UNCHANGED notTop
    \/ TopCoins("http_error", <<>>) /\ UNCHANGED notTop

SpecTop == Init /\ [][TopNext]_vars

\* Top-tokens requests for one token each, one after the other, while time
\* passes, from an empty category cache or from a full one; the lists of
\* more than one category are sent to the first request
ResolveNext ==
    \/ \E name \in Names : TopStart(name, 1) /\ UNCHANGED notTop
    \/ TopPermit /\ UNCHANGED notTop
    \/ \E categories \in CategoryLists :
          /\ Len(categories) > 1 => FirstRequest
          /\ TopCategories("ok", categories)
          /\ UNCHANGED notTop
    \/ TopCategories("http_error", <<>>) /\ UNCHANGED notTop
    \/ \E coins \in {c \in CoinLists : Len(c) = 1} :
          TopCoins("ok", coins) /\ UNCHANGED notTop
    \/ TopCoins("http_error", <<>>) /\ UNCHANGED notTop
    \/ TopTick /\ UNCHANGED <<notTop, token_cache, b_stored>>

SpecResolve == ResolveInit /\ [][ResolveNext]_vars

\* Multi-token historical requests one after the other
MultiNext ==
    \/ \E ids \in MultiIdLists : \E days \in DaysValues :
          MultiStart(ids, days) /\ UNCHANGED notMulti
    \/ BatchPermit /\ UNCHANGED notBatch
    \/ \E outcome \in Outcomes : BatchCall(outcome) /\ UNCHANGED notBatch
    \/ MultiResume /\ UNCHANGED notMulti
    \/ MultiPermit /\ UNCHANGED notMulti
    \/ \E answer \in MultiAnswers : MultiCall(answer) /\ UNCHANGED notMulti

SpecMulti == Init /\ [][MultiNext]_vars

\* Multi-token historical requests for the default days, one after the
\* other, while time passes
MultiAgedNext ==
    \/ \E ids \in MultiIdLists :
          MultiStart(ids, DefaultDays) /\ UNCHANGED notMulti
    \/ BatchPermit /\ UNCHANGED notBatch
    \/ \E outcome \in Outcomes : BatchCall(outcome) /\ UNCHANGED notBatch
    \/ MultiResume /\ UNCHANGED notMulti
    \/ MultiPermit /\ UNCHANGED notMulti
    \/ \E answer \in MultiAnswers : MultiCall(answer) /\ UNCHANGED notMulti
    \/ BatchTick /\ UNCHANGED notBatch

SpecMultiAged == Init /\ [][MultiAgedNext]_vars

\* List-categories requests, up to one per caller at a time
CatNext ==
    \/ \E r \in Callers : CatStart(r) /\ UNCHANGED notCat
    \/ \E r \in Callers : CatPermit(r) /\ UNCHANGED notCat
    \/ \E r \in Callers : \E list \in CategorySnapshots :
          CatCall(r, "ok", list) /\ UNCHANGED notCat
    \/ \E r \in Callers : CatCall(r, "http_error", <<>>) /\ UNCHANGED notCat
    \/ \E r \in Callers : CatDelete(r) /\ UNCHANGED notCat
    \/ \E r \in Callers : CatInsert(r) /\ UNCHANGED notCat

SpecCat == Init /\ [][CatNext]_vars

\* Category-historical requests one after the other, served by caller 1,
\* the categories being listed by caller 2, while time passes
HistNext ==
    \/ CatStart(2) /\ UNCHANGED notCat
    \/ CatPermit(2) /\ UNCHANGED notCat
    \/ \E list \in CategorySnapshots :
          CatCall(2, "ok", list) /\ UNCHANGED notCat
    \/ CatDelete(2) /\ UNCHANGED notCat
    \/ CatInsert(2) /\ UNCHANGED notCat
    \/ \E cid \in HistCategoryIds, days \in HistDaysValues :
          HistStart(1, cid, days) /\ UNCHANGED notHist
    \/ HistFind(1) /\ UNCHANGED notHist
    \/ HistPermit(1) /\ UNCHANGED notHist
    \/ \E answer \in HistAnswers : HistCall(1, answer) /\ UNCHANGED notHist
    \/ HistDelete(1) /\ UNCHANGED notHist
    \/ HistInsert(1) /\ UNCHANGED notHist
    \/ HistTick /\ UNCHANGED <<notHist, db_historical>>

SpecHist == HistInit /\ [][HistNext]_vars

\* The answers that are refused, or whose points are all valid
UsableAnswers ==
    {a \in HistAnswers : /\ a.status \in {200, 429}
                         /\ \A p \in a.points : p.valid}

\* Category-historical requests for category 1, up to one per caller at a
\* time, after the categories were listed, answered
\* with the answers above
HistParNext ==
    \/ CatStart(1) /\ UNCHANGED notCat
    \/ CatPermit(1) /\ UNCHANGED notCat
    \/ CatCall(1, "ok", <<CatDoc(1)>>) /\ UNCHANGED notCat
    \/ CatDelete(1) /\ UNCHANGED notCat
    \/ CatInsert(1) /\ UNCHANGED notCat
    \/ \E r \in Callers, days \in HistDaysValues :
          HistStart(r, Str(1), days) /\ UNCHANGED notHist
    \/ \E r \in Callers : HistFind(r) /\ UNCHANGED notHist
    \/ \E r \in Callers : HistPermit(r) /\ UNCHANGED notHist
    \/ \E r \in Callers : \E answer \in UsableAnswers :
          HistCall(r, answer) /\ UNCHANGED notHist
    \/ \E r \in Callers : HistDelete(r) /\ UNCHANGED notHist
    \/ \E r \in Callers : HistInsert(r) /\ UNCHANGED notHist
    \/ HistTick /\ UNCHANGED <<notHist, db_historical>>

SpecHistPar == HistInit /\ [][HistParNext]_vars

\* ------------------------------------------------------------------------
\* C1: in every reachable state at most RATE_LIMIT_CALLS permits were granted
\* in the trailing window (clock - RATE_LIMIT_WINDOW, clock].  Permits are
\* granted at the current time only, so the windows that end between two
\* values of the clock hold no more grants than the one that ends at the
\* earlier value.
C1_WindowQuota == Len(grantLog) <= RATE_LIMIT_CALLS

\* C1 witness: the quota of the window is used up and a caller is held back.
C1_Witness ==
    /\ Len(grantLog) = RATE_LIMIT_CALLS
    /\ \E p \in Callers : cpc[p] = "sleeping"

\* C31: in every reachable state of the limiter last_calls holds at most
\* RATE_LIMIT_CALLS call times, in non-decreasing order, so that its first
\* element is the oldest call on record.
C31_HistoryBoundedAndSorted ==
    /\ Len(last_calls) <= RATE_LIMIT_CALLS
    /\ \A i \in 1..Len(last_calls) : \A j \in i..Len(last_calls) :
           last_calls[i] <= last_calls[j]

\* C31 witness: the history is full, with calls of different times, while a
\* caller is held back.
C31_Witness ==
    /\ Len(last_calls) = RATE_LIMIT_CALLS
    /\ last_calls[1] < last_calls[RATE_LIMIT_CALLS]
    /\ \E p \in Callers : cpc[p] = "sleeping"

\* C24: a sleeping caller sleeps until the oldest call it found is
\* RATE_LIMIT_WINDOW old (that is for RATE_LIMIT_WINDOW - (now - oldest));
\* when it is granted that time has come and the calls of the window, pruned,
\* are fewer than RATE_LIMIT_CALLS before its own; and it sleeps again only
\* if a permit was granted to another caller since its sleep.
C24_WaitAndRecheck ==
    [][\A p \in Callers :
          /\ cpc'[p] = "sleeping" =>
                /\ waiting'[p] # <<>>
                /\ wake'[p] = waiting'[p][1].oldest + RATE_LIMIT_WINDOW
                /\ wake'[p] - waiting'[p][1].since =
                      RATE_LIMIT_WINDOW
                      - (waiting'[p][1].since - waiting'[p][1].oldest)
                /\ wake'[p] > waiting'[p][1].since
          /\ (cpc[p] = "sleeping" /\ cpc'[p] = "idle") =>
                /\ clock >= waiting[p][1].oldest + RATE_LIMIT_WINDOW
                /\ Len(last_calls') <= RATE_LIMIT_CALLS
                /\ \A i \in 1..Len(last_calls') :
                      clock - last_calls'[i] < RATE_LIMIT_WINDOW
          /\ (cpc[p] = "sleeping" /\ waited'[p] > waited[p]) =>
                waiting[p][1].overtaken
      ]_vars

\* C24 witness: a caller that slept once, until the oldest call was
\* RATE_LIMIT_WINDOW old, has its permit; no other caller is waiting.
C24_Witness ==
    \E p \in Callers :
        /\ cpc[p] = "idle"
        /\ waited[p] = 1
        /\ clock >= RATE_LIMIT_WINDOW
        /\ last_calls # <<>>
        /\ last_calls[Len(last_calls)] = clock
        /\ \A q \in Callers : cpc[q] = "idle"

\* C25 as claimed: a run of check_rate_limit keeps every recorded call whose
\* age is RATE_LIMIT_WINDOW or less.
C25_ExactAgeKept ==
    [][clock' = clock =>
          \A i \in 1..Len(last_calls) :
              clock - last_calls[i] <= RATE_LIMIT_WINDOW =>
                  \E j \in 1..Len(last_calls') :
                      last_calls'[j] = last_calls[i]
      ]_vars

\* C25 amended: a run of check_rate_limit leaves in last_calls exactly the
\* recorded calls whose age is less than RATE_LIMIT_WINDOW, in their order,
\* followed by the call it grants, if it grants one; a call whose age is
\* exactly RATE_LIMIT_WINDOW is dropped.
C25_PruneAtWindow ==
    [][clock' = clock =>
          LET kept == SelectSeq(last_calls,
                          LAMBDA t : clock - t < RATE_LIMIT_WINDOW)
          IN  \/ last_calls' = kept
              \/ /\ last_calls' = Append(kept, clock)
                 /\ Len(kept) < RATE_LIMIT_CALLS
      ]_vars

\* C25 witness: the window was full of calls made at time 0; at time
\* RATE_LIMIT_WINDOW, their age being exactly the window, they were dropped
\* and the caller that had waited for it has its permit.
C25_Witness ==
    /\ clock = RATE_LIMIT_WINDOW
    /\ last_calls = <<clock>>
    /\ \E p \in Callers : cpc[p] = "idle" /\ waited[p] = 1

\* C26: the calls on record that count toward the quota are exactly the
\* permits granted in the window: a caller that gave up while sleeping has
\* left no call on record, and the others are granted as if it had never
\* asked.
C26_AbandonLeavesNothing ==
    PruneCalls(last_calls, clock) = grantLog

\* C26 witness: a caller gave up its wait for a full window, and then, the
\* window having passed, the other caller was granted a permit.
C26_Witness ==
    \E p, q \in Callers :
        /\ p # q
        /\ cpc[p] = "idle"
        /\ waiting[p] # <<>>
        /\ waiting[p][1].overtaken
        /\ cpc[q] = "idle"
        /\ grantLog # <<>>
        /\ grantLog[Len(grantLog)] = clock
        /\ clock >= waiting[p][1].oldest + RATE_LIMIT_WINDOW

\* C27 as claimed, for the categories that carry an id: a top-tokens
\* request for a name that was resolved, in whatever letter case, less than
\* CATEGORY_TTL before it makes no list-categories call: it is granted one
\* permit and makes one provider call, for the members of the category.
C27_ResolvedFromCache ==
    (t_fresh0.resolved /\ t_fresh0.with_id) =>
        /\ tpc \notin {"permit1", "call1"}
        /\ \A i \in 1..Len(t_trace) : t_trace[i] # "categories"
        /\ tpc = "done" => t_trace = <<"permit", "category">>

\* C27 amended: such a request makes no list-categories call, is granted
\* one permit and makes one provider call, for the members of the
\* category, when fewer than CATEGORY_MAXSIZE other names were resolved or
\* served from the cache since the name was.
C27_ResolvedWithinCapacity ==
    (/\ t_fresh0.resolved
     /\ t_fresh0.with_id
     /\ t_fresh0.others < CATEGORY_MAXSIZE) =>
        /\ tpc \notin {"permit1", "call1"}
        /\ \A i \in 1..Len(t_trace) : t_trace[i] # "categories"
        /\ tpc = "done" => t_trace = <<"permit", "category">>

\* C27 witness: "me" was asked for less than a ttl after "Me" had been
\* resolved, CATEGORY_MAXSIZE - 1 other names having been resolved since,
\* and the request ended after one permit and the call for the members.
C27_Witness ==
    /\ tpc = "done"
    /\ t_fresh0.resolved
    /\ t_fresh0.with_id
    /\ t_fresh0.others = CATEGORY_MAXSIZE - 1
    /\ category_name = <<"m", "e">>
    /\ t_resolved[Lower(category_name)].time = PastTime(1)
    /\ t_resolved[Lower(category_name)].name = <<"M", "e">>
    /\ t_trace = <<"permit", "category">>
    /\ top_response.status = 200

\* C2: every request has started at most as many provider calls as it was
\* granted permits (each provider call comes after a permit of its own).
C2_CallsNeedPermits ==
    \A r \in Callers : callsStarted[r] <= permitsGranted[r]

\* C3: a caller suspended in check_rate_limit is eventually granted its
\* permit (the function has no failure outcome: it sleeps or returns).
C3_EventuallyGranted ==
    \A p \in Callers : (cpc[p] = "sleeping") ~> (cpc[p] = "idle")

\* C3 witness: a caller was granted after two sleeps (it was overtaken at its
\* first retry and had to wait again).
C3_Witness == \E p \in Callers : cpc[p] = "idle" /\ waited[p] = 2

\* C6: a get returns the value of the latest put of its key while less than
\* ttl has passed since that put (the key not evicted for capacity since),
\* and absent once ttl has passed.
C6_GetAfterPut ==
    (lastGet # None /\ lastGet[1].put # None) =>
        LET g == lastGet[1]
            p == g.put[1]
        IN  IF g.time - p.time < CacheTtl
            THEN g.result = p.value
            ELSE g.result = Absent

\* C6 witness: a get at the moment the ttl has elapsed, answered absent.
C6_Witness ==
    /\ lastGet # None
    /\ lastGet[1].put # None
    /\ lastGet[1].time - lastGet[1].put[1].time = CacheTtl
    /\ lastGet[1].result = Absent

\* C7: the cache never holds more entries than its capacity, and a put of a
\* new key into a cache full of unexpired keys evicts exactly the least
\* recently accessed of them (a put with room left evicts none).
C7_CapacityAndLRU ==
    /\ Len(gcache) <= CacheMaxSize
    /\ lastEvict # None =>
          lastEvict[1].gone = (IF lastEvict[1].full THEN lastEvict[1].lru
                               ELSE {})

\* C7 witness: the cache is full, and the latest put evicted the key that
\* was put last but read least recently, sparing a key put before it.
C7_Witness ==
    /\ lastEvict # None
    /\ lastEvict[1].full
    /\ Len(gcache) = CacheMaxSize
    /\ \E j \in lastEvict[1].gone : \E i \in CacheKeysOf(gcache) :
          \E e \in {gcache[n] : n \in 1..Len(gcache)} :
             /\ e.key = i
             /\ e.expires_at < clock + CacheTtl
             /\ lastEvict[1].putTimes[j] > e.expires_at - CacheTtl

\* C4: the batch fetch never ends with an exception.
C4_NeverRaises == bpc # "raised"

\* C5: a fetch that has ended has returned, its result holds exactly the
\* requested ids that were cached at the call and the ids returned by the
\* batches that succeeded, and every batch was attempted.
C5_ExactResult ==
    bpc \in {"returned", "raised"} =>
        /\ bpc = "returned"
        /\ Len(b_log) = Len(b_batches)
        /\ DOMAIN b_result =
              {Str(i) : i \in b_cached0}
              \cup UNION {b_log[j].returned : j \in 1..Len(b_log)}

\* A handler that normalizes price series has processed raw_quotes
Normalized == npc \in {"tokens", "doge"}

\* The series a handler has produced from raw_quotes
ProducedSeries ==
    {all_tokens_history[i].history : i \in 1..Len(all_tokens_history)}
    \cup (IF doge_response.status = 200 THEN {doge_response.body} ELSE {})

\* A raw quote with a timestamp, the USD quote and a price
GoodQuote(q) ==
    q.timestamp # <<>> /\ q.quote # <<>> /\ q.quote # <<Null>>

\* C8: in every non-empty series produced, the first point has
\* percent_change 0 and every later point has the rounded percentage change
\* from the price of the point before it.
C8_PercentChange ==
    \A s \in ProducedSeries :
        s # <<>> =>
            /\ s[1].percent_change = 0
            /\ \A i \in 2..Len(s) :
                  /\ IsNum(s[i].price)
                  /\ IsNum(s[i - 1].price)
                  /\ s[i - 1].price[1] # 0
                  /\ s[i].percent_change =
                        PercentChange(s[i].price[1], s[i - 1].price[1])

\* C9: raw quotes without a timestamp, the USD quote or a price are
\* discarded and the others are normalized: the handler produces the series
\* of the good quotes (stated for good quotes with non-zero prices).
C9_BadEntriesDiscarded ==
    LET good == SelectSeq(raw_quotes, GoodQuote)
    IN  (/\ Normalized
         /\ \A i \in 1..Len(good) : good[i].quote # <<Num(0)>>)
        => ProducedSeries = {NormalizeSeries(good).price_history}

\* C10: when a price of a series of good quotes is 0, the handler still
\* produces a series, and it holds every point that does not follow a zero
\* price.
C10_ZeroPriceSkipped ==
    LET sorted == SortedQuotes(raw_quotes)
    IN  (/\ Normalized
         /\ \A i \in 1..Len(raw_quotes) : GoodQuote(raw_quotes[i]))
        => \E s \in ProducedSeries :
              \A i \in 1..Len(sorted) :
                  (i = 1 \/ sorted[i - 1].quote # <<Num(0)>>)
                  => \E j \in 1..Len(s) :
                        /\ s[j].timestamp = sorted[i].timestamp[1]
                        /\ s[j].price = sorted[i].quote[1]

\* The orders in which the provider may send the same quotes
Reorderings(quotes) ==
    {[i \in 1..Len(quotes) |-> quotes[p[i]]] :
        p \in Permutations(1..Len(quotes))}

\* The response to the quotes is the one the handler has given
SameOutcome(quotes) ==
    /\ npc = "tokens" => TokensBody(quotes) = all_tokens_history
    /\ npc = "doge" => DogeBody(quotes) = doge_response

\* No two quotes carry the same timestamp
DistinctTimestamps(quotes) ==
    \A i, j \in 1..Len(quotes) :
        (i # j /\ quotes[i].timestamp # <<>>)
        => quotes[i].timestamp # quotes[j].timestamp

\* C11 as claimed: whatever the order of the quotes, quotes that share a
\* timestamp included, the handler gives the same response.
C11_AnyOrderSameOutput ==
    Normalized => \A q \in Reorderings(raw_quotes) : SameOutcome(q)

\* C11 amended: when no two quotes carry the same timestamp, the handler
\* gives the same response whatever the order of the quotes.
C11_DistinctOrderSameOutput ==
    (Normalized /\ DistinctTimestamps(raw_quotes))
    => \A q \in Reorderings(raw_quotes) : SameOutcome(q)

\* C11 witness: three quotes with different timestamps, received out of
\* order, were normalized to a series of three points.
C11_Witness ==
    /\ npc = "tokens"
    /\ Len(raw_quotes) = 3
    /\ DistinctTimestamps(raw_quotes)
    /\ raw_quotes[1].timestamp # <<>>
    /\ raw_quotes[2].timestamp # <<>>
    /\ raw_quotes[1].timestamp[1] > raw_quotes[2].timestamp[1]
    /\ all_tokens_history # <<>>
    /\ Len(all_tokens_history[1].history) = 3

\* The timestamps of a series, in its order
ReturnedSeries ==
    ProducedSeries
    \cup (IF npc = "memes" THEN {memes_response} ELSE {})
    \cup (IF npc = "compare" THEN {compare_response} ELSE {})

\* C12: the points of every series a historical query returns are in
\* non-decreasing order of timestamp.
C12_SeriesOrdered ==
    \A s \in ReturnedSeries :
        \A i \in 1..(Len(s) - 1) : s[i].timestamp <= s[i + 1].timestamp

\* C13: a top-tokens request for a name that no category of the provider's
\* list matches is answered 404.
C13_NotFoundIs404 ==
    (/\ tpc = "done"
     /\ t_categories # None
     /\ \A i \in 1..Len(t_categories[1]) :
           Lower(t_categories[1][i].name) # Lower(category_name))
    => top_response.status = 404

\* C14: the category a name resolves to has the same lower-cased name, and
\* against the provider's list a name resolves exactly when some category of
\* the list has the same lower-cased name, to the first such category.
C14_CaseInsensitiveExact ==
    /\ target_category # <<>> =>
          Lower(target_category[1].name) = Lower(category_name)
    /\ t_categories # None =>
          LET listed == t_categories[1]
              same == {i \in 1..Len(listed) :
                         Lower(listed[i].name) = Lower(category_name)}
          IN  /\ (target_category # <<>>) <=> (same # {})
              /\ target_category # <<>> =>
                    \E i \in same : /\ target_category[1] = listed[i]
                                    /\ \A j \in same : i <= j

\* C14 witness: "Me" resolved to the category named "me", listed after one
\* named "m".
C14_Witness ==
    /\ t_categories # None
    /\ category_name = <<"M", "e">>
    /\ target_category = <<[id |-> <<2>>, name |-> <<"m", "e">>]>>
    /\ t_categories[1][1].name = <<"m">>

\* The market cap a returned token counts with: null counts as 0
CountedCap(token) ==
    IF token.market_cap = Null THEN 0 ELSE token.market_cap[1]

\* C16: a top-tokens request whose category call was answered with coins
\* succeeds when every coin carries its symbol, and a successful request
\* returns min(limit, members) tokens, each a different member, in
\* non-increasing order of market cap, and no member left out has a larger
\* market cap than a returned one.
C16_TopN ==
    (tpc = "done" /\ t_coins # None) =>
        LET coins == t_coins[1]
            body == top_response.body
            ids == {body[i].id : i \in 1..Len(body)}
        IN  /\ (\A c \in 1..Len(coins) : coins[c].symbol # <<>>)
                  => top_response.status = 200
            /\ top_response.status = 200 =>
                  /\ Len(body) = Min(limit, Len(coins))
                  /\ Cardinality(ids) = Len(body)
                  /\ \A i \in 1..Len(body) :
                        /\ body[i].id \in 1..Len(coins)
                        /\ CountedCap(body[i]) = CapKey(coins[body[i].id])
                  /\ \A i \in 1..(Len(body) - 1) :
                        CountedCap(body[i]) >= CountedCap(body[i + 1])
                  /\ \A c \in (1..Len(coins)) \ ids : \A i \in 1..Len(body) :
                        CapKey(coins[c]) <= CountedCap(body[i])

\* C16 witness: of two coins the second, with the larger market cap, is
\* the one returned for limit 1, the first having a null market cap.
C16_Witness ==
    /\ tpc = "done"
    /\ t_coins # None
    /\ limit = 1
    /\ Len(t_coins[1]) = 2
    /\ t_coins[1][1].marketCap = <<Null>>
    /\ top_response.status = 200
    /\ Len(top_response.body) = 1
    /\ top_response.body[1].id = 2

\* The positions of token_ids whose id was not cached at the call
UncachedCount ==
    Cardinality({i \in 1..Len(b_ids) : b_ids[i] \notin b_cached0})

CeilDiv(a, b) == (a + b - 1) \div b

\* C19: every provider request of a fetch holds at most 100 ids and follows
\* one permit of its own, and a fetch that has ended has issued exactly
\* ceil(u / 100) provider calls, u being the number of uncached ids.
C19_BatchCount ==
    /\ \A j \in 1..Len(b_log) : Len(b_log[j].sent) <= BATCH_SIZE
    /\ b_permits = Len(b_log) + (IF bpc = "call" THEN 1 ELSE 0)
    /\ bpc \in {"returned", "raised"} =>
           Len(b_log) = CeilDiv(UncachedCount, BATCH_SIZE)

\* C21 as claimed: a fetch all of whose ids the provider returned to an
\* earlier fetch less than the ttl before it makes no provider call, is
\* granted no permit, and returns for each id the value the provider
\* returned.
C21_SameMappingRefetched ==
    (/\ bpc # "idle"
     /\ b_ids # <<>>
     /\ \A i \in 1..Len(b_ids) :
           /\ Str(b_ids[i]) \in DOMAIN b_fresh0
           /\ b_fresh0[Str(b_ids[i])].answered # <<>>)
    => /\ bpc = "returned"
       /\ b_log = <<>>
       /\ b_permits = 0
       /\ DOMAIN b_result = {Str(b_ids[i]) : i \in 1..Len(b_ids)}
       /\ \A k \in DOMAIN b_result :
             b_result[k] = b_fresh0[k].answered[1].value

\* C21 amended: a fetch all of whose ids were assigned to the token-info
\* cache less than the ttl before it (by a provider answer of an earlier
\* fetch, or by get_top_tokens_by_category since) makes no provider call, is
\* granted no permit, and returns for each id the value that was assigned
\* last.
C21_RefetchFromCache ==
    (/\ bpc # "idle"
     /\ b_ids # <<>>
     /\ \A i \in 1..Len(b_ids) : Str(b_ids[i]) \in DOMAIN b_fresh0)
    => /\ bpc = "returned"
       /\ b_log = <<>>
       /\ b_permits = 0
       /\ DOMAIN b_result = {Str(b_ids[i]) : i \in 1..Len(b_ids)}
       /\ \A k \in DOMAIN b_result : b_result[k] = b_fresh0[k].value

\* C21 witness: the second fetch of the ids 1, 2, 3, half a ttl after the
\* provider returned them, has returned them without a provider call.
C21_Witness ==
    /\ bpc = "returned"
    /\ b_n = 2
    /\ b_ids = <<1, 2, 3>>
    /\ clock = TOKEN_INFO_TTL \div 2
    /\ b_log = <<>>
    /\ DOMAIN b_result = {Str(1), Str(2), Str(3)}
    /\ \A k \in DOMAIN b_result : b_result[k] = TokenInfo

\* C20: an id that was cached when the fetch was called is in no provider
\* request of the fetch and has its cached value in the result; a fetch
\* all of whose ids were cached (or that has no ids) makes no provider call
\* and is granted no permit.
C20_CachedNotFetched ==
    bpc # "idle" =>
        /\ \A j \in 1..Len(b_log) : \A k \in 1..Len(b_log[j].sent) :
               b_log[j].sent[k] \notin b_cached0
        /\ \A k \in DOMAIN b_served0 :
               k \in DOMAIN b_result /\ b_result[k] = b_served0[k]
        /\ (\A i \in 1..Len(b_ids) : b_ids[i] \in b_cached0) =>
               /\ bpc = "returned"
               /\ b_log = <<>>
               /\ b_permits = 0

\* C20 witness: of the ids 1, 2, 3, id 1 was cached; one request was made,
\* for 2 and 3, and the result has the cached value of 1.
C20_Witness ==
    /\ bpc = "returned"
    /\ b_ids = <<1, 2, 3>>
    /\ b_cached0 = {1}
    /\ Len(b_log) = 1
    /\ b_log[1].sent = <<2, 3>>
    /\ Str(1) \in DOMAIN b_result
    /\ b_result[Str(1)] = b_served0[Str(1)]

\* No get_categories request is in progress.
CatQuiet == \A r \in Callers : cat_pc[r] \in {"idle", "done", "failed"}

\* C17: when no list-categories request is in progress and one has
\* succeeded, db.categories holds exactly the list of one successful
\* request's provider response.
C17_SnapshotIsOneResponse ==
    (CatQuiet /\ cat_done # {}) => db_categories \in cat_done

\* C18: a request for a category whose series was persisted less than an
\* hour before the request began is answered with the persisted series,
\* without a permit and without a provider call.
C18_ServedFromStore ==
    \A r \in Callers :
        (/\ hpc[r] = "done"
         /\ h_prev[r] # <<>>
         /\ h_prev[r][1].series[1].category_id = h_category[r]
         /\ h_start[r] - h_prev[r][1].time < FRESH_WINDOW
         /\ h_found[r])
        => /\ h_response[r] =
                 [status |-> 200, body |-> h_prev[r][1].series]
           /\ h_permits[r] = 0
           /\ h_calls[r] = 0

\* The documents of the store with the category and the timestamp of d
SameKey(d) ==
    {i \in 1..Len(db_historical) :
        /\ db_historical[i].category_id = d.category_id
        /\ db_historical[i].timestamp = d.timestamp}

\* C28: when no category-historical request is in progress the store holds
\* at most one document for a category and a timestamp.
C28_OneDocumentPerPoint ==
    (\A r \in Callers : hpc[r] \in {"idle", "done"}) =>
        \A i \in 1..Len(db_historical) :
            Cardinality(SameKey(db_historical[i])) = 1

\* C22: in a multi-token historical request every batch of the token-info
\* fetch is sent at most once, in order, failed or not; every position of
\* token_ids is passed at most once, with at most one historical call; and
\* there are never more provider calls than permits granted.
C22_NoRetry ==
    /\ Len(b_log) <= Len(b_batches)
    /\ \A j \in 1..Len(b_log) : b_log[j].sent = b_batches[j]
    /\ Len(b_log) <= b_permits
    /\ Len(m_log) <= Len(m_ids)
    /\ \A j \in 1..Len(m_log) : m_log[j].id = m_ids[j]

\* C22 witness: the historical call for token 2, at the first position,
\* failed; the request ended after one batch call and one call for each of
\* its two positions.
C22_Witness ==
    /\ mpc = "done"
    /\ m_ids = <<2, 1>>
    /\ Len(b_log) = 1
    /\ Len(m_log) = 2
    /\ m_log[1].kind = "call"
    /\ m_log[1].answer.outcome = "error"
    /\ m_log[2].kind = "call"

\* C30: a list-categories request whose provider call fails, or whose answer
\* lists no category, ends there with db.categories as it was; a request
\* goes on to delete_many and insert_many only with a list that is not
\* empty, and only those two steps change db.categories.
C30_SnapshotKeptOnFailure ==
    [][/\ \A r \in Callers :
            (cat_pc[r] = "call" /\ cat_pc'[r] \in {"failed", "done"}) =>
                db_categories' = db_categories
       /\ \A r \in Callers :
            cat_pc'[r] \in {"delete", "insert"} => cat_data'[r] # <<>>
       /\ db_categories' # db_categories =>
            \E r \in Callers : /\ cat_pc[r] \in {"delete", "insert"}
                                /\ cat_pc'[r] # cat_pc[r]]_vars

\* C30 witness: one request stored the category 1, another was answered
\* with an empty list, and the store holds the category 1.
C30_Witness ==
    /\ \A r \in Callers : cat_pc[r] \in {"idle", "done"}
    /\ cat_done = {<<CatDoc(1)>>, <<>>}
    /\ db_categories = <<CatDoc(1)>>

\* C32: whenever the multi-token historical request takes the history of a
\* token from HISTORICAL_CACHE, the entry it takes was stored for that token
\* id and for the days of the request, and is the history of that token.
C32_KeyedByTokenAndDays ==
    \A j \in 1..Len(m_log) :
        m_log[j].kind = "cached" =>
            LET key == HistoryKey(m_log[j].id, m_days) IN
            /\ key \in DOMAIN m_stored
            /\ m_stored[key] = [id |-> m_log[j].id, days |-> m_days]
            /\ m_log[j].cached[1].id = m_log[j].id

\* C32 witness: the history of token 1 was cached for 7 days; a request
\* for 17 days did not take that entry but called the provider for token 1,
\* and at the later position of token 1 took the entry it had stored for 17.
C32_Witness ==
    /\ mpc = "done"
    /\ m_days = LongDays
    /\ m_ids = <<1, 2, 1>>
    /\ Len(m_log) = 3
    /\ m_log[1].kind = "call"
    /\ m_log[3].kind = "cached"
    /\ TTLContains(historical_cache, HistoryKey(1, DefaultDays), clock)
    /\ m_stored[HistoryKey(1, DefaultDays)] = [id |-> 1, days |-> DefaultDays]
    /\ m_stored[HistoryKey(1, LongDays)] = [id |-> 1, days |-> LongDays]

\* C33: a multi-token historical request that began with a live
\* HISTORICAL_CACHE entry for every token of token_ids is granted no permit
\* and makes no provider call, in batch_get_token_info or in its loop.
C33_AllCachedNoCall ==
    (m_cached0 /\ mpc # "idle") =>
        /\ b_permits = 0
        /\ Len(b_log) = 0
        /\ mpc \notin {"permit", "call"}
        /\ \A j \in 1..Len(m_log) : m_log[j].kind # "call"

\* C29: a multi-token historical request never waits for a permit or calls
\* the provider for a token whose metadata the batch fetch did not resolve;
\* such a token is passed without a call, and when it has no cached history
\* it is not in the response.
C29_UnresolvedSkipped ==
    /\ mpc \in {"permit", "call"} =>
           Str(m_ids[m_i]) \in DOMAIN token_info
    /\ \A j \in 1..Len(m_log) :
           Str(m_log[j].id) \notin DOMAIN token_info =>
               m_log[j].kind \in {"cached", "noinfo"}
    /\ (mpc = "done" /\ m_response.status = 200) =>
           \A j \in 1..Len(m_log) :
               m_log[j].kind = "noinfo" =>
                   \A k \in 1..Len(m_response.body) :
                       m_response.body[k].id # m_log[j].id

\* C29 witness: token 2 was not resolved and was passed without a call, and
\* the request returned the history of token 1 alone, after one call.
C29_Witness ==
    /\ mpc = "done"
    /\ m_response.status = 200
    /\ m_ids = <<2, 1>>
    /\ Str(2) \notin DOMAIN token_info
    /\ Len(m_log) = 2
    /\ m_log[1].kind = "noinfo"
    /\ m_log[2].kind = "call"
    /\ Len(m_response.body) = 1
    /\ m_response.body[1].id = 1

\* The places, in the provider requests of the fetch, where the id is asked
\* for
RequestedAt(id) ==
    {<<j, k>> \in (1..Len(b_log)) \X (1..(BATCH_SIZE)) :
        k <= Len(b_log[j].sent) /\ b_log[j].sent[k] = id}

\* C23: no id is asked for more than once in the provider requests of one
\* fetch.
C23_EachIdOnce ==
    \A i \in 1..Len(b_ids) : Cardinality(RequestedAt(b_ids[i])) <= 1

\* What a position passed by the loop is to contribute to the body
ExpectedOf(e) ==
    IF e.kind = "cached" THEN e.cached
    ELSE IF /\ e.kind = "call"
            /\ e.answer.outcome = "ok"
            /\ NormalizeSeries(e.answer.quotes).error = "none"
    THEN <<TokenHistory(e.id, token_info[Str(e.id)],
                        NormalizeSeries(e.answer.quotes).price_history)>>
    ELSE <<>>

RECURSIVE ExpectedBody(_)
ExpectedBody(log) ==
    IF log = <<>> THEN <<>>
    ELSE ExpectedOf(Head(log)) \o ExpectedBody(Tail(log))

\* C15: once the token info is fetched, the multi-token request ends with a
\* 200 whatever happens to single tokens; every requested position was
\* processed, and the body holds, in request order, the series of the
\* positions that were cached or whose fetch and normalization succeeded.
C15_PartialFailure ==
    (mpc = "done" /\ bpc = "returned") =>
        /\ m_response.status = 200
        /\ Len(m_log) = Len(m_ids)
        /\ \A i \in 1..Len(m_ids) : m_log[i].id = m_ids[i]
        /\ m_response.body = ExpectedBody(m_log)

\* C15 witness: of the tokens 2 and 1, the series of token 2 had a null
\* price and was dropped, and the series of token 1 is the body.
C15_Witness ==
    /\ mpc = "done"
    /\ bpc = "returned"
    /\ m_ids = <<2, 1>>
    /\ Len(m_log) = 2
    /\ m_log[1].kind = "call"
    /\ m_log[1].answer.outcome = "ok"
    /\ NormalizeSeries(m_log[1].answer.quotes).error = "TypeError"
    /\ Len(m_response.body) = 1
    /\ m_response.body[1].id = 1
    /\ Len(m_response.body[1].history) = 2

====
